---- MODULE Spec2Model ----
(***************************************************************************)
(* Model of the satsolver crate: the CNF data model (cnf.rs), assignments  *)
(* (assignment.rs), the watched-literals index (watchedliterals.rs) and    *)
(* the DPLL search driver with BCP (satsolve.rs).                          *)
(*                                                                         *)
(* Conventions.  A literal is the pair <<var, polarity>>.  Option<T> is    *)
(* the empty tuple (None) or a one-element tuple (Some).  Clause indices   *)
(* are 1-based here (Rust's are 0-based).  A HashMap is a function whose   *)
(* DOMAIN is the set of keys present.                                      *)
(***************************************************************************)
EXTENDS Integers, Sequences, FiniteSets, TLC

\* ------------------------------------------------------------------------
\* Bounds of the checked input space
\* ------------------------------------------------------------------------

\* variables 1..MaxVar may occur in the exhaustively enumerated formulas
MaxVar == 2
\* at most MaxClauses clauses per exhaustively enumerated formula
MaxClauses == 2
\* at most MaxLen literals per clause of an exhaustively enumerated formula
MaxLen == 2
\* is_satisfiable is called Runs times on the same formula
Runs == 2
\* variables 1..MaxAddVar are passed to Clause::add_positive and Clause::add_negative
MaxAddVar == 3
\* backtrack is called on decision stacks of at most MaxLevels levels
MaxLevels == 3
\* find_replacement_literal is called on clauses of at most MaxFindLen literals over the
\* variables 1..MaxFindLen
MaxFindLen == 3
\* parse_cnf_from_str reads texts of at most MaxText tokens and line ends
MaxText == 4

\* ------------------------------------------------------------------------
\* Option
\* ------------------------------------------------------------------------

None == << >>

Some(x) == << x >>

\* ------------------------------------------------------------------------
\* cnf.rs
\* ------------------------------------------------------------------------

\* Clause::new
Clause_new == [positive |-> << >>, negative |-> << >>]

\* membership in a Vec (Vec::contains)
contains(vec, x) == \E i \in 1..Len(vec) : vec[i] = x

\* Clause::add_positive pushing without the test of the negative literals
add_positive_unchecked(cls, var) ==
    IF ~contains(cls.positive, var)
    THEN [panic |-> FALSE, clause |-> [cls EXCEPT !.positive = Append(@, var)]]
    ELSE [panic |-> FALSE, clause |-> cls]

\* Clause::add_positive: the clause it leaves, or the panic
add_positive(cls, var) ==
    IF ~contains(cls.positive, var)
    THEN IF ~contains(cls.negative, var)
         THEN [panic |-> FALSE, clause |-> [cls EXCEPT !.positive = Append(@, var)]]
         ELSE [panic |-> TRUE, clause |-> cls]
    ELSE [panic |-> FALSE, clause |-> cls]

\* Clause::add_negative: the clause it leaves, or the panic
add_negative(cls, var) ==
    IF ~contains(cls.negative, var)
    THEN IF ~contains(cls.positive, var)
         THEN [panic |-> FALSE, clause |-> [cls EXCEPT !.negative = Append(@, var)]]
         ELSE [panic |-> TRUE, clause |-> cls]
    ELSE [panic |-> FALSE, clause |-> cls]

\* Clause::literals: the positive literals in stored order, then the negative
literals(cls) ==
    [i \in 1..Len(cls.positive) |-> << cls.positive[i], TRUE >>]
        \o [i \in 1..Len(cls.negative) |-> << cls.negative[i], FALSE >>]

\* Clause::is_empty
Clause_is_empty(cls) == cls.positive = << >> /\ cls.negative = << >>

\* Assignment::get
get(a, var) == IF var \in DOMAIN a THEN Some(a[var]) ELSE None

\* Assignment::get_lit
get_lit(a, lit) == IF lit[1] \in DOMAIN a THEN Some(a[lit[1]] = lit[2]) ELSE None

\* change writing the opposite value
change_negated(a, var, val) ==
    [x \in (DOMAIN a) \cup {var} |-> IF x = var THEN ~val ELSE a[x]]

\* Assignment::change
change(a, var, val) == [x \in (DOMAIN a) \cup {var} |-> IF x = var THEN val ELSE a[x]]

\* Assignment::with keeping the value of a variable that is already assigned
with_keep(a, var, val) == IF var \in DOMAIN a THEN a ELSE change(a, var, val)

\* Assignment::with: the changed clone
with(a, var, val) == change(a, var, val)

\* Assignment::new
Assignment_new == [x \in {} |-> TRUE]

\* Clause::is_satisfied with the polarity of the negative literals ignored
Clause_is_satisfied_polarity(cls, a) ==
    \/ \E i \in 1..Len(cls.positive) : get(a, cls.positive[i]) = Some(TRUE)
    \/ \E i \in 1..Len(cls.negative) : get(a, cls.negative[i]) # None

\* Clause::is_satisfied
Clause_is_satisfied(cls, a) ==
    \/ \E i \in 1..Len(cls.positive) : get(a, cls.positive[i]) = Some(TRUE)
    \/ \E i \in 1..Len(cls.negative) : get(a, cls.negative[i]) = Some(FALSE)

\* Cnf::is_satisfied
Cnf_is_satisfied(clauses, a) ==
    \A i \in 1..Len(clauses) : Clause_is_satisfied(clauses[i], a)

Max(x, y) == IF x >= y THEN x ELSE y

RECURSIVE highest_var_in_clause(_)
\* highest_var_in_clause: fold of max over a Vec<Var>, starting from 0
highest_var_in_clause(slc) ==
    IF slc = << >> THEN 0
    ELSE Max(highest_var_in_clause(SubSeq(slc, 1, Len(slc) - 1)), slc[Len(slc)])

RECURSIVE highest_var(_)
\* Cnf::highest_var
highest_var(clauses) ==
    IF clauses = << >> THEN 0
    ELSE LET n == Len(clauses)
         IN  Max(Max(highest_var(SubSeq(clauses, 1, n - 1)),
                     highest_var_in_clause(clauses[n].positive)),
                 highest_var_in_clause(clauses[n].negative))

\* ------------------------------------------------------------------------
\* watchedliterals.rs
\* ------------------------------------------------------------------------

\* HashMap::entry(key).or_default().push(ci)
entry_push(map, key, ci) ==
    [k \in (DOMAIN map) \cup {key} |->
        IF k = key
        THEN (IF key \in DOMAIN map THEN Append(map[key], ci) ELSE << ci >>)
        ELSE map[k]]

\* set_watch entering the clause in the access map under lit0 only
set_watch_first_only(W, clause_idx, lit0, lit1) ==
    [watched_literals |-> [W.watched_literals EXCEPT ![clause_idx] = Some(<< lit0, lit1 >>)],
     access_map |-> entry_push(W.access_map, lit0, clause_idx)]

\* WatchedLiterals::set_watch
set_watch(W, clause_idx, lit0, lit1) ==
    [watched_literals |-> [W.watched_literals EXCEPT ![clause_idx] = Some(<< lit0, lit1 >>)],
     access_map |-> entry_push(entry_push(W.access_map, lit0, clause_idx), lit1, clause_idx)]

RECURSIVE new_loop_first_twice(_, _, _)
\* the for loop of WatchedLiterals::new watching the first literal in both slots
new_loop_first_twice(clauses, W, i) ==
    IF i > Len(clauses) THEN W
    ELSE LET lits == literals(clauses[i])
         IN  IF Len(lits) >= 2
             THEN new_loop_first_twice(clauses, set_watch(W, i, lits[1], lits[1]), i + 1)
             ELSE new_loop_first_twice(clauses, W, i + 1)

RECURSIVE new_loop(_, _, _)
\* the for loop of WatchedLiterals::new, from clause index i on
new_loop(clauses, W, i) ==
    IF i > Len(clauses) THEN W
    ELSE LET lits == literals(clauses[i])
         IN  IF Len(lits) >= 2
             THEN new_loop(clauses, set_watch(W, i, lits[1], lits[2]), i + 1)
             ELSE new_loop(clauses, W, i + 1)

\* WatchedLiterals::new
WatchedLiterals_new(clauses) ==
    new_loop(clauses,
             [watched_literals |-> [i \in 1..Len(clauses) |-> None],
              access_map |-> [k \in {} |-> << >>]],
             1)

\* Iterator::position(|&ci| ci == clause_idx): first index holding clause_idx, 0 if none
position(vec, clause_idx) ==
    IF contains(vec, clause_idx)
    THEN CHOOSE p \in 1..Len(vec) :
            /\ vec[p] = clause_idx
            /\ \A q \in 1..(p - 1) : vec[q] # clause_idx
    ELSE 0

\* Vec::swap_remove with the removal left out
swap_remove_keep(vec, p) == vec

\* Vec::swap_remove: the last element takes the place of the removed one
swap_remove(vec, p) ==
    LET n == Len(vec)
    IN  [i \in 1..(n - 1) |-> IF i = p THEN vec[n] ELSE vec[i]]

\* replace_watched_literal writing the new literal into the first slot whichever slot held
\* the old one
replace_watched_literal_first_slot(W, clause_idx, old_wl, new_wl) ==
    LET clause_indices == W.access_map[old_wl]
        am1 == [W.access_map EXCEPT ![old_wl] =
                    swap_remove(clause_indices, position(clause_indices, clause_idx))]
        wls == W.watched_literals[clause_idx][1]
    IN  [panic |-> "",
         W |-> [watched_literals |->
                    [W.watched_literals EXCEPT ![clause_idx] = Some(<< new_wl, wls[2] >>)],
                access_map |-> entry_push(am1, new_wl, clause_idx)]]

\* WatchedLiterals::replace_watched_literal; panic names the abort site, "" if none
replace_watched_literal(W, clause_idx, old_wl, new_wl) ==
    IF old_wl \notin DOMAIN W.access_map
    THEN [panic |-> "replace_watched_literal: no access map entry", W |-> W]
    ELSE
    LET clause_indices == W.access_map[old_wl]
        p == position(clause_indices, clause_idx)
    IN  IF p = 0
        THEN [panic |-> "replace_watched_literal: clause not in list", W |-> W]
        ELSE
        LET am1 == [W.access_map EXCEPT ![old_wl] = swap_remove(clause_indices, p)]
            slot == W.watched_literals[clause_idx]
        IN  IF slot = None
            THEN [panic |-> "replace_watched_literal: clause has no watched literals", W |-> W]
            ELSE
            LET wls == slot[1]
            IN  IF wls[1] = old_wl
                THEN [panic |-> "",
                      W |-> [watched_literals |->
                                [W.watched_literals EXCEPT ![clause_idx] = Some(<< new_wl, wls[2] >>)],
                             access_map |-> entry_push(am1, new_wl, clause_idx)]]
                ELSE IF wls[2] = old_wl
                THEN [panic |-> "",
                      W |-> [watched_literals |->
                                [W.watched_literals EXCEPT ![clause_idx] = Some(<< wls[1], new_wl >>)],
                             access_map |-> entry_push(am1, new_wl, clause_idx)]]
                ELSE [panic |-> "replace_watched_literal: literal not watched", W |-> W]

RECURSIVE find_loop(_, _, _, _, _)
\* the for loop of find_replacement_literal over lits[i..], and the match after it
find_loop(lits, i, a, second_wl, unassigned_literal) ==
    IF i > Len(lits)
    THEN IF unassigned_literal # None
         THEN IF unassigned_literal[1] = second_wl
              THEN [kind |-> "UnitClauseWithGiven", lit |-> None]
              ELSE [kind |-> "UnitClause", lit |-> unassigned_literal]
         ELSE [kind |-> "UnsatisfiableClause", lit |-> None]
    ELSE
    LET lit == lits[i]
        v == get_lit(a, lit)
    IN  IF v = Some(TRUE)
        THEN IF lit = second_wl
             THEN [kind |-> "panic", lit |-> None]
             ELSE [kind |-> "OtherLiteralSatisfying", lit |-> Some(lit)]
        ELSE IF v = Some(FALSE)
        THEN find_loop(lits, i + 1, a, second_wl, unassigned_literal)
        ELSE IF unassigned_literal # None
             THEN IF unassigned_literal[1] = second_wl
                  THEN [kind |-> "MultipleUnassigned", lit |-> Some(lit)]
                  ELSE IF lit = second_wl
                  THEN [kind |-> "MultipleUnassigned", lit |-> unassigned_literal]
                  ELSE [kind |-> "panic", lit |-> None]
             ELSE find_loop(lits, i + 1, a, second_wl, Some(lit))

\* find_replacement_literal reporting a conflict as soon as second_wl is false
find_replacement_literal_conflict(cls, a, second_wl) ==
    IF get_lit(a, second_wl) = Some(TRUE)
    THEN [kind |-> "GivenLiteralSatisfying", lit |-> None]
    ELSE IF get_lit(a, second_wl) = Some(FALSE)
    THEN [kind |-> "UnsatisfiableClause", lit |-> None]
    ELSE find_loop(literals(cls), 1, a, second_wl, None)

\* find_replacement_literal without the check of second_wl before the loop
find_replacement_literal_unchecked(cls, a, second_wl) ==
    find_loop(literals(cls), 1, a, second_wl, None)

\* find_replacement_literal accepting an assigned second_wl where it must be satisfied
find_replacement_literal_assigned(cls, a, second_wl) ==
    IF get_lit(a, second_wl) # None
    THEN [kind |-> "GivenLiteralSatisfying", lit |-> None]
    ELSE find_loop(literals(cls), 1, a, second_wl, None)

\* WatchedLiterals::find_replacement_literal
find_replacement_literal(cls, a, second_wl) ==
    IF get_lit(a, second_wl) = Some(TRUE)
    THEN [kind |-> "GivenLiteralSatisfying", lit |-> None]
    ELSE find_loop(literals(cls), 1, a, second_wl, None)

\* check_clause_after_update keeping the pair of a unit clause without pushing other_wl
check_clause_after_update_silent(W, clause_idx, clause, a, new_assignment) ==
    LET slot == W.watched_literals[clause_idx]
    IN  IF slot = None
        THEN [kind |-> "panic", lit |-> None, props |-> << >>,
              site |-> "check_clause_after_update: clause has no watched literals"]
        ELSE
        LET wl0 == slot[1][1]
            wl1 == slot[1][2]
        IN  IF wl0[1] # new_assignment[1] /\ wl1[1] # new_assignment[1]
            THEN [kind |-> "panic", lit |-> None, props |-> << >>,
                  site |-> "check_clause_after_update: old watched literal not contained"]
            ELSE
            LET other_wl == IF wl0[1] = new_assignment[1] THEN wl1 ELSE wl0
                f == find_replacement_literal(clause, a, other_wl)
            IN  CASE f.kind = "GivenLiteralSatisfying" ->
                        [kind |-> "KeepLiteral", lit |-> None, props |-> << >>, site |-> ""]
                  [] f.kind = "OtherLiteralSatisfying" ->
                        [kind |-> "SwapTo", lit |-> f.lit, props |-> << >>, site |-> ""]
                  [] f.kind = "MultipleUnassigned" ->
                        [kind |-> "SwapTo", lit |-> f.lit, props |-> << >>, site |-> ""]
                  [] f.kind = "UnitClauseWithGiven" ->
                        [kind |-> "KeepLiteral", lit |-> None, props |-> << >>, site |-> ""]
                  [] f.kind = "UnitClause" ->
                        [kind |-> "SwapTo", lit |-> f.lit, props |-> << f.lit[1] >>, site |-> ""]
                  [] f.kind = "UnsatisfiableClause" ->
                        [kind |-> "UnsatisfiableClause", lit |-> None, props |-> << >>, site |-> ""]
                  [] OTHER ->
                        [kind |-> "panic", lit |-> None, props |-> << >>,
                         site |-> "find_replacement_literal: unreachable"]

\* WatchedLiterals::check_clause_after_update; props are the literals pushed to propagations
check_clause_after_update(W, clause_idx, clause, a, new_assignment) ==
    LET slot == W.watched_literals[clause_idx]
    IN  IF slot = None
        THEN [kind |-> "panic", lit |-> None, props |-> << >>,
              site |-> "check_clause_after_update: clause has no watched literals"]
        ELSE
        LET wl0 == slot[1][1]
            wl1 == slot[1][2]
        IN  IF wl0[1] # new_assignment[1] /\ wl1[1] # new_assignment[1]
            THEN [kind |-> "panic", lit |-> None, props |-> << >>,
                  site |-> "check_clause_after_update: old watched literal not contained"]
            ELSE
            LET other_wl == IF wl0[1] = new_assignment[1] THEN wl1 ELSE wl0
                f == find_replacement_literal(clause, a, other_wl)
            IN  CASE f.kind = "GivenLiteralSatisfying" ->
                        [kind |-> "KeepLiteral", lit |-> None, props |-> << >>, site |-> ""]
                  [] f.kind = "OtherLiteralSatisfying" ->
                        [kind |-> "SwapTo", lit |-> f.lit, props |-> << >>, site |-> ""]
                  [] f.kind = "MultipleUnassigned" ->
                        [kind |-> "SwapTo", lit |-> f.lit, props |-> << >>, site |-> ""]
                  [] f.kind = "UnitClauseWithGiven" ->
                        [kind |-> "KeepLiteral", lit |-> None, props |-> << other_wl >>, site |-> ""]
                  [] f.kind = "UnitClause" ->
                        [kind |-> "SwapTo", lit |-> f.lit, props |-> << f.lit[1] >>, site |-> ""]
                  [] f.kind = "UnsatisfiableClause" ->
                        [kind |-> "UnsatisfiableClause", lit |-> None, props |-> << >>, site |-> ""]
                  [] OTHER ->
                        [kind |-> "panic", lit |-> None, props |-> << >>,
                         site |-> "find_replacement_literal: unreachable"]

RECURSIVE update_loop(_, _, _, _, _, _, _)
\* the for loop of update over the snapshot clauses_vec.clone(), from position i on
update_loop(W, clauses, a, new_assignment, snapshot, i, propagations) ==
    IF i > Len(snapshot)
    THEN [kind |-> "Satisfiable", propagations |-> propagations, W |-> W, site |-> ""]
    ELSE
    LET clause_idx == snapshot[i]
        watched_literal == << new_assignment[1], ~new_assignment[2] >>
        r == check_clause_after_update(W, clause_idx, clauses[clause_idx], a, new_assignment)
    IN  CASE r.kind = "KeepLiteral" ->
                update_loop(W, clauses, a, new_assignment, snapshot, i + 1,
                            propagations \o r.props)
          [] r.kind = "SwapTo" ->
                LET rep == replace_watched_literal(W, clause_idx, watched_literal, r.lit[1])
                IN  IF rep.panic # ""
                    THEN [kind |-> "panic", propagations |-> << >>, W |-> W, site |-> rep.panic]
                    ELSE update_loop(rep.W, clauses, a, new_assignment, snapshot, i + 1,
                                     propagations \o r.props)
          [] r.kind = "UnsatisfiableClause" ->
                [kind |-> "Unsatisfiable", propagations |-> << >>, W |-> W, site |-> ""]
          [] OTHER ->
                [kind |-> "panic", propagations |-> << >>, W |-> W, site |-> r.site]

\* update walking the snapshot from its last clause to its first
update_reversed(W, clauses, a, new_assignment) ==
    LET watched_literal == << new_assignment[1], ~new_assignment[2] >>
        snapshot == IF watched_literal \in DOMAIN W.access_map
                    THEN W.access_map[watched_literal] ELSE << >>
    IN  update_loop(W, clauses, a, new_assignment,
                    [k \in 1..Len(snapshot) |-> snapshot[Len(snapshot) + 1 - k]], 1, << >>)

\* update creating an empty access list for a literal that has none
update_creating_entry(W, clauses, a, new_assignment) ==
    LET watched_literal == << new_assignment[1], ~new_assignment[2] >>
    IN  IF watched_literal \in DOMAIN W.access_map
        THEN update_loop(W, clauses, a, new_assignment, W.access_map[watched_literal], 1, << >>)
        ELSE [kind |-> "Satisfiable", propagations |-> << >>, site |-> "",
              W |-> [W EXCEPT !.access_map =
                        [k \in (DOMAIN W.access_map) \cup {watched_literal} |->
                            IF k = watched_literal THEN << >> ELSE W.access_map[k]]]]

\* WatchedLiterals::update
update(W, clauses, a, new_assignment) ==
    LET var == new_assignment[1]
        val == new_assignment[2]
        watched_literal == << var, ~val >>
    IN  IF get(a, var) = None
        THEN [kind |-> "panic", propagations |-> << >>, W |-> W,
              site |-> "update: assertion failed"]
        ELSE IF watched_literal \in DOMAIN W.access_map
        THEN update_loop(W, clauses, a, new_assignment, W.access_map[watched_literal], 1, << >>)
        ELSE [kind |-> "Satisfiable", propagations |-> << >>, W |-> W, site |-> ""]

\* ------------------------------------------------------------------------
\* satsolve.rs: helpers of the search driver
\* ------------------------------------------------------------------------

\* the opposite first polarity
FIRST_TRY_true == TRUE

\* const FIRST_TRY: bool = false
FIRST_TRY == FALSE

\* the fast checks without the test for a formula without clauses
fast_checks_no_empty_formula(clauses) ==
    IF \E i \in 1..Len(clauses) : Clause_is_empty(clauses[i])
    THEN Some([verdict |-> FALSE, exit |-> "empty_clause"])
    ELSE None

\* the fast checks with all() in place of any() in the test for an empty clause
fast_checks_all_empty(clauses) ==
    IF clauses = << >>
    THEN Some([verdict |-> TRUE, exit |-> "no_clauses"])
    ELSE IF \A i \in 1..Len(clauses) : Clause_is_empty(clauses[i])
    THEN Some([verdict |-> FALSE, exit |-> "empty_clause"])
    ELSE None

\* the fast checks of is_satisfiable: Some(verdict and return site), None to go on
fast_checks(clauses) ==
    IF clauses = << >>
    THEN Some([verdict |-> TRUE, exit |-> "no_clauses"])
    ELSE IF \E i \in 1..Len(clauses) : Clause_is_empty(clauses[i])
    THEN Some([verdict |-> FALSE, exit |-> "empty_clause"])
    ELSE None

RECURSIVE singles_loop_first_literal(_, _, _)
\* the loop of get_assignment_from_single_clauses taking the first literal of every
\* non-empty clause, whatever its length
singles_loop_first_literal(clauses, i, assignment) ==
    IF i > Len(clauses) THEN Some(assignment)
    ELSE LET lits == literals(clauses[i])
         IN  IF Len(lits) >= 1
             THEN LET g == get_lit(assignment, lits[1])
                  IN  IF g = Some(TRUE) THEN singles_loop_first_literal(clauses, i + 1, assignment)
                      ELSE IF g = Some(FALSE) THEN None
                      ELSE singles_loop_first_literal(clauses, i + 1,
                                        change(assignment, lits[1][1], lits[1][2]))
             ELSE singles_loop_first_literal(clauses, i + 1, assignment)

RECURSIVE singles_loop_overwrite(_, _, _)
\* the loop of get_assignment_from_single_clauses with the conflicting literal overwriting
\* the recorded one instead of returning None
singles_loop_overwrite(clauses, i, assignment) ==
    IF i > Len(clauses) THEN Some(assignment)
    ELSE LET lits == literals(clauses[i])
         IN  IF Len(lits) = 1
             THEN singles_loop_overwrite(clauses, i + 1,
                                         change(assignment, lits[1][1], lits[1][2]))
             ELSE singles_loop_overwrite(clauses, i + 1, assignment)

RECURSIVE singles_loop(_, _, _)
\* the for loop of get_assignment_from_single_clauses, from clause index i on
singles_loop(clauses, i, assignment) ==
    IF i > Len(clauses) THEN Some(assignment)
    ELSE LET lits == literals(clauses[i])
         IN  IF Len(lits) = 1
             THEN LET g == get_lit(assignment, lits[1])
                  IN  IF g = Some(TRUE) THEN singles_loop(clauses, i + 1, assignment)
                      ELSE IF g = Some(FALSE) THEN None
                      ELSE singles_loop(clauses, i + 1,
                                        change(assignment, lits[1][1], lits[1][2]))
             ELSE singles_loop(clauses, i + 1, assignment)

\* get_assignment_from_single_clauses
get_assignment_from_single_clauses(clauses) == singles_loop(clauses, 1, Assignment_new)

\* Assignment::iter().collect(): the (var, val) pairs of an assignment
iter(a) == {<< v, a[v] >> : v \in DOMAIN a}

\* check_assignment without the increment of stats.tries
check_assignment_no_count(clauses, a, tries) ==
    [result |-> Cnf_is_satisfied(clauses, a), tries |-> tries]

\* check_assignment: the result of the evaluation and the incremented counter
check_assignment(clauses, a, tries) ==
    [result |-> Cnf_is_satisfied(clauses, a), tries |-> tries + 1]

RECURSIVE skip_assigned(_, _)
\* the loop of choose_next_var: increase var while it is assigned
skip_assigned(a, var) ==
    IF get(a, var) # None THEN skip_assigned(a, var + 1) ELSE var

\* the top decision level's field, or the default when the stack is empty
last_or(levels, field, default) ==
    IF levels = << >> THEN default ELSE levels[Len(levels)][field]

\* choose_next_var with the guard var <= max
choose_next_var_inclusive(max, levels, initial) ==
    LET start == 1 + last_or(levels, "next_var_at_least", 0)
        a == last_or(levels, "assignment", initial)
        var == skip_assigned(a, start)
    IN  IF var <= max THEN Some(var) ELSE None

\* choose_next_var taking the first variable without looking at the stack
choose_next_var_first(max, levels, initial) ==
    IF 1 < max THEN Some(1) ELSE None

\* choose_next_var
choose_next_var(max, levels, initial) ==
    LET start == 1 + last_or(levels, "next_var_at_least", 0)
        a == last_or(levels, "assignment", initial)
        var == skip_assigned(a, start)
    IN  IF var < max THEN Some(var) ELSE None

RECURSIVE backtrack_top_only(_)
\* backtrack giving up at a flipped top level instead of popping it
backtrack_top_only(levels) ==
    IF levels = << >>
    THEN [result |-> "UnsatisfiableFormula", lit |-> None, dec_levels |-> levels]
    ELSE
    LET n == Len(levels)
        dl == levels[n]
    IN  IF ~dl.flipped
        THEN LET new_assignment == << dl.changed_var, ~dl.assignment[dl.changed_var] >>
             IN  [result |-> "ContinueWith", lit |-> Some(new_assignment),
                  dec_levels |->
                    [levels EXCEPT ![n] =
                        [dl EXCEPT !.flipped = TRUE,
                                   !.assignment = change(dl.assignment, new_assignment[1],
                                                         new_assignment[2])]]]
        ELSE [result |-> "UnsatisfiableFormula", lit |-> None, dec_levels |-> << >>]

RECURSIVE backtrack_no_flag(_)
\* backtrack without dl.flipped = true
backtrack_no_flag(levels) ==
    IF levels = << >>
    THEN [result |-> "UnsatisfiableFormula", lit |-> None, dec_levels |-> levels]
    ELSE
    LET n == Len(levels)
        dl == levels[n]
    IN  IF ~dl.flipped
        THEN LET new_assignment == << dl.changed_var, ~dl.assignment[dl.changed_var] >>
             IN  [result |-> "ContinueWith", lit |-> Some(new_assignment),
                  dec_levels |->
                    [levels EXCEPT ![n] =
                        [dl EXCEPT !.assignment = change(dl.assignment, new_assignment[1],
                                                         new_assignment[2])]]]
        ELSE backtrack_no_flag(SubSeq(levels, 1, n - 1))

RECURSIVE backtrack(_)
\* backtrack: the result and the decision stack it leaves
backtrack(levels) ==
    IF levels = << >>
    THEN [result |-> "UnsatisfiableFormula", lit |-> None, dec_levels |-> levels]
    ELSE
    LET n == Len(levels)
        dl == levels[n]
    IN  IF ~dl.flipped
        THEN LET old_assignment == get(dl.assignment, dl.changed_var)
             IN  IF old_assignment = None
                 THEN [result |-> "panic", lit |-> None, dec_levels |-> levels]
                 ELSE
                 LET new_assignment == << dl.changed_var, ~old_assignment[1] >>
                 IN  [result |-> "ContinueWith", lit |-> Some(new_assignment),
                      dec_levels |->
                        [levels EXCEPT ![n] =
                            [dl EXCEPT !.flipped = TRUE,
                                       !.assignment = change(dl.assignment,
                                                             new_assignment[1],
                                                             new_assignment[2])]]]
        ELSE backtrack(SubSeq(levels, 1, n - 1))

\* next_var_at_least taken from the decided variable in every case
new_next_var_at_least_decided(levels, new_assigned_lit) == new_assigned_lit[1]

\* the next_var_at_least block of State::NewDecLevelWithAssignment
new_next_var_at_least(levels, new_assigned_lit) ==
    LET nval == last_or(levels, "next_var_at_least", 0)
    IN  IF new_assigned_lit[1] = nval + 1 THEN new_assigned_lit[1] ELSE nval

RECURSIVE apply_propagations(_, _, _)
\* the for loop of propagate_assignment over new_propagations: assignment.change for each
apply_propagations(a, new_propagations, i) ==
    IF i > Len(new_propagations) THEN a
    ELSE apply_propagations(change(a, new_propagations[i][1], new_propagations[i][2]),
                            new_propagations, i + 1)

\* propagate_step putting the new propagations in front of the queue
propagate_step_front(W, clauses, a, queue) ==
    LET prop == Head(queue)
        r == update(W, clauses, a, prop)
    IN  IF r.kind = "Satisfiable"
        THEN [kind |-> "Continue", W |-> r.W, site |-> "",
              assignment |-> apply_propagations(a, r.propagations, 1),
              propagations |-> r.propagations \o Tail(queue)]
        ELSE [kind |-> r.kind, W |-> r.W, site |-> r.site,
              assignment |-> a, propagations |-> << >>]

\* one iteration of the while loop of propagate_assignment: pop_front, update, enqueue
propagate_step(W, clauses, a, queue) ==
    LET prop == Head(queue)
        r == update(W, clauses, a, prop)
    IN  IF r.kind = "Satisfiable"
        THEN [kind |-> "Continue", W |-> r.W, site |-> "",
              assignment |-> apply_propagations(a, r.propagations, 1),
              propagations |-> Tail(queue) \o r.propagations]
        ELSE [kind |-> r.kind, W |-> r.W, site |-> r.site,
              assignment |-> a, propagations |-> << >>]

\* ------------------------------------------------------------------------
\* input.rs
\* ------------------------------------------------------------------------

\* a token that is the decimal numeral of an i64: its sign, and its magnitude
\* hi * 2^32 + lo written as the two 32-bit halves
Num(neg, hi, lo) == [word |-> "", neg |-> neg, hi |-> hi, lo |-> lo]

\* a token that is the word w
Word(w) == [word |-> w, neg |-> FALSE, hi |-> 0, lo |-> 0]

\* part == 0, part < 0 and part > 0 on a parsed i64
is_zero(part) == part.hi = 0 /\ part.lo = 0
is_negative(part) == part.neg /\ ~is_zero(part)

\* the end of a line
Newline == Word("\n")

RECURSIVE lines(_, _)
\* input.lines().map(trim).filter(not empty), each line split_ascii_whitespace: the
\* non-empty lines of the text as token sequences; cur is the line being collected
lines(text, cur) ==
    IF text = << >>
    THEN (IF cur = << >> THEN << >> ELSE << cur >>)
    ELSE IF Head(text) = Newline
    THEN (IF cur = << >> THEN << >> ELSE << cur >>) \o lines(Tail(text), << >>)
    ELSE lines(Tail(text), Append(cur, Head(text)))

\* part.parse::<i64>() succeeds on every token of the line
all_parse(line) == \A i \in 1..Len(line) : line[i].word = ""

\* the casts `-part as u32` of a negative and `part as u32` of a positive i64: the
\* low 32 bits of the magnitude
as_u32(part) == part.lo

\* ------------------------------------------------------------------------
\* Inputs
\* ------------------------------------------------------------------------

Cls(pos, neg) == [positive |-> pos, negative |-> neg]

\* sequences without repetition, of length at most n, over the set S
InjSeqs(S, n) ==
    {q \in UNION {[1..k -> S] : k \in 0..n} : \A i, j \in 1..Len(q) : i # j => q[i] # q[j]}

\* the clauses a Clause value can hold (no variable twice, none in both polarities)
\* over variables 1..MaxVar with at most MaxLen literals
SmallClauses ==
    {c \in [positive : InjSeqs(1..MaxVar, MaxLen), negative : InjSeqs(1..MaxVar, MaxLen)] :
        /\ Len(c.positive) + Len(c.negative) <= MaxLen
        /\ \A i \in 1..Len(c.positive) : ~contains(c.negative, c.positive[i])}

\* every formula of at most MaxClauses such clauses
SmallInputs == UNION {[1..k -> SmallClauses] : k \in 0..MaxClauses}

\* formulas of the tests test_sat_sanity, test_sat_deep_dl and test_sat
TestInputs ==
    { << >>,
      << Cls(<< >>, << >>) >>,
      << Cls(<< 1 >>, << >>), Cls(<< >>, << >>) >>,
      << Cls(<< >>, << 1 >>), Cls(<< >>, << >>) >>,
      << Cls(<< >>, << >>), Cls(<< 1 >>, << >>) >>,
      << Cls(<< >>, << >>), Cls(<< >>, << 1 >>) >>,
      << Cls(<< 1 >>, << >>) >>,
      << Cls(<< 1, 2, 3 >>, << >>), Cls(<< 4, 5, 6 >>, << >>), Cls(<< 7, 8, 9 >>, << >>) >>,
      << Cls(<< >>, << 1, 2, 3 >>), Cls(<< >>, << 4, 5, 6 >>), Cls(<< >>, << 7, 8, 9 >>) >>,
      << Cls(<< 4 >>, << 1, 2, 3 >>), Cls(<< 1 >>, << >>), Cls(<< 2 >>, << >>), Cls(<< 3 >>, << >>) >>,
      << Cls(<< 1, 2, 3 >>, << >>), Cls(<< >>, << 1 >>), Cls(<< >>, << 2 >>), Cls(<< >>, << 3 >>) >>,
      << Cls(<< 2 >>, << 1, 3 >>), Cls(<< 1 >>, << >>), Cls(<< >>, << 2 >>), Cls(<< 3 >>, << >>) >>,
      << Cls(<< 1, 2, 3 >>, << >>), Cls(<< >>, << 2, 3 >>), Cls(<< >>, << 3 >>), Cls(<< >>, << 1 >>) >>,
      << Cls(<< 1, 2, 3, 4 >>, << >>), Cls(<< >>, << 2, 3 >>), Cls(<< >>, << 3 >>), Cls(<< >>, << 1 >>) >>,
      << Cls(<< 1, 2, 3 >>, << >>), Cls(<< >>, << 2, 3 >>), Cls(<< 2 >>, << 3 >>), Cls(<< >>, << 1 >>) >> }

\* formulas with a clause of four literals next to single-literal clauses:
\*   "1 2 3 4 / -1 / -2"   and   "1 / 2 / -1 -3 / 3 -2 -4 -5"
LongClauseInputs ==
    { << Cls(<< 1, 2, 3, 4 >>, << >>), Cls(<< >>, << 1 >>), Cls(<< >>, << 2 >>) >>,
      << Cls(<< 1 >>, << >>), Cls(<< 2 >>, << >>), Cls(<< >>, << 1, 3 >>),
         Cls(<< 3 >>, << 2, 4, 5 >>) >> }

\* formulas of three two-literal clauses, as the fuzz harness draws them:
\*   "-1 -2 / 1 -2 / 1 2",   "1 2 / -1 2 / 1 -2"   and   "-2 -3 / 1 2 / 1 3"
BinaryInputs ==
    { << Cls(<< >>, << 1, 2 >>), Cls(<< 1 >>, << 2 >>), Cls(<< 1, 2 >>, << >>) >>,
      << Cls(<< 1, 2 >>, << >>), Cls(<< 2 >>, << 1 >>), Cls(<< 1 >>, << 2 >>) >>,
      << Cls(<< >>, << 2, 3 >>), Cls(<< 1, 2 >>, << >>), Cls(<< 1, 3 >>, << >>) >> }

\* formulas of three two-literal clauses, as the fuzz harness draws them: one in which a
\* propagation is derived while another one waits in the queue, and one in which a
\* variable is decided above a flipped level:   "1 2 / 1 3 / -2 4"   and   "1 2 / 1 -2 / 3 4"
ChainInputs ==
    { << Cls(<< 1, 2 >>, << >>), Cls(<< 1, 3 >>, << >>), Cls(<< 4 >>, << 2 >>) >>,
      << Cls(<< 1, 2 >>, << >>), Cls(<< 1 >>, << 2 >>), Cls(<< 3, 4 >>, << >>) >> }

Inputs == SmallInputs \cup TestInputs \cup BinaryInputs \cup LongClauseInputs \cup ChainInputs

\* formulas of the tests of watchedliterals.rs that build an index and change it:
\*   "2 3",  "2 3 -4 5 -6",  "1 2 3",  "1 2 3 / -2 4 / -3 / -4 -1 -5"
IndexTestInputs ==
    { << Cls(<< 2, 3 >>, << >>) >>,
      << Cls(<< 2, 3, 5 >>, << 4, 6 >>) >>,
      << Cls(<< 1, 2, 3 >>, << >>) >>,
      << Cls(<< 1, 2, 3 >>, << >>), Cls(<< 4 >>, << 2 >>), Cls(<< >>, << 3 >>),
         Cls(<< >>, << 4, 1, 5 >>) >> }

RECURSIVE occurrences(_)
\* the variables of a formula in the order its clauses store them
occurrences(clauses) ==
    IF clauses = << >> THEN << >>
    ELSE LET n == Len(clauses)
         IN  occurrences(SubSeq(clauses, 1, n - 1)) \o clauses[n].positive \o clauses[n].negative

\* the variables of the formula are numbered in the order of their first occurrence (the
\* index never compares variable numbers, so every formula behaves as its renumbering does)
NumberedInOrder(clauses) ==
    LET occ == occurrences(clauses)
    IN  \A p \in 1..Len(occ) : \A v \in 1..(occ[p] - 1) : \E q \in 1..(p - 1) : occ[q] = v

\* the formulas an index is built for when update is called on it directly: the enumerated
\* formulas of fewer than MaxClauses clauses, numbered in order, and the formulas named above
IndexInputs ==
    {c \in SmallInputs : Len(c) < MaxClauses /\ NumberedInOrder(c)}
        \cup IndexTestInputs \cup BinaryInputs \cup LongClauseInputs

\* ------------------------------------------------------------------------
\* State
\* ------------------------------------------------------------------------

VARIABLES
    cnf,                 \* the formula passed to is_satisfiable (cnf.clauses)
    state,               \* position of the call: "Start", "Level0", the State enum, "Returned", "Aborted"
    lit,                 \* the literal carried by NewDecLevelWithAssignment / PropagateAssignment
    watchedliterals,     \* None before WatchedLiterals::new, then Some(index)
    initial_assignment,  \* the level-0 assignment
    assignments_vec,     \* level-0 literals not yet taken from assignments_vec
    dec_levels,          \* the decision stack
    in_bcp,              \* TRUE while propagate_assignment is running
    propagations,        \* the queue of propagate_assignment
    tries,               \* stats.tries
    result,              \* None, or Some(verdict) once returned
    exit,                \* "" or the return statement taken
    panic,               \* "" or the site of the abort
    run,                 \* number of the current call on this formula
    first,               \* outcome of the first call, once it has ended
    evals,               \* history: evaluations of Cnf::is_satisfied made by this call
    last_eval,           \* history: the assignment evaluated last
    pushed,              \* history: decision levels pushed by this call
    updates,             \* history: calls of WatchedLiterals::update made by this call
    checks,              \* history: CheckCurrentLevel steps executed with a non-empty stack
    last_update,         \* history: "" or what the last call of WatchedLiterals::update returned
    derived,             \* history: per decision level, the literals BCP wrote into its
                         \* assignment since its decided literal was last set
    clause,              \* None, or Some(the Clause value being built)
    last_add,            \* history: None, or Some(literal) passed to the last add_positive /
                         \* add_negative call
    input,               \* the lines of the text parse_cnf_from_str has not read yet
    parts,               \* the parts of the current line not yet added to the clause
    with_result,         \* None, or Some(the assignment Assignment::with returned)
    found,               \* None, or Some(what find_replacement_literal returned)
    replaced             \* None, or Some(the arguments of the last replace_watched_literal call)

hist == << evals, last_eval, pushed, updates, checks, last_update, derived >>

\* the state of building and parsing clauses
building == << clause, last_add, input, parts, with_result, found, replaced >>

vars == << cnf, state, lit, watchedliterals, initial_assignment, assignments_vec, dec_levels,
           in_bcp, propagations, tries, result, exit, panic, run, first, hist, building >>

\* the assignment propagate_assignment works on
current_assignment == last_or(dec_levels, "assignment", initial_assignment)

\* the state before the first call, for a formula of the set inputs
InitWith(inputs) ==
    /\ cnf \in inputs
    /\ state = "Start"
    /\ lit = None
    /\ watchedliterals = None
    /\ initial_assignment = Assignment_new
    /\ assignments_vec = {}
    /\ dec_levels = << >>
    /\ in_bcp = FALSE
    /\ propagations = << >>
    /\ tries = 0
    /\ result = None
    /\ exit = ""
    /\ panic = ""
    /\ run = 1
    /\ first = None
    /\ evals = 0
    /\ last_eval = None
    /\ pushed = 0
    /\ updates = 0
    /\ checks = 0
    /\ last_update = ""
    /\ derived = << >>
    /\ clause = None
    /\ last_add = None
    /\ input = << >>
    /\ parts = << >>
    /\ with_result = None
    /\ found = None
    /\ replaced = None

Init == InitWith(Inputs)

\* ------------------------------------------------------------------------
\* satsolve.rs: is_satisfiable
\* ------------------------------------------------------------------------

\* return (verdict, stats) at the return statement named site
Return(verdict, site) ==
    /\ state' = "Returned"
    /\ result' = Some(verdict)
    /\ exit' = site

\* a panic, unreachable!(), failed expect/unwrap or failed assertion at site
Abort(site) ==
    /\ state' = "Aborted"
    /\ panic' = site
    /\ UNCHANGED << result, exit >>

\* the fast checks return
FastChecks ==
    /\ state = "Start"
    /\ fast_checks(cnf) # None
    /\ Return(fast_checks(cnf)[1].verdict, fast_checks(cnf)[1].exit)
    /\ UNCHANGED << cnf, lit, watchedliterals, initial_assignment, assignments_vec, dec_levels,
                    in_bcp, propagations, tries, panic, run, first, hist >>
    /\ UNCHANGED building

\* WatchedLiterals::new, then get_assignment_from_single_clauses and assignments_vec
BuildInitialAssignment ==
    /\ state = "Start"
    /\ fast_checks(cnf) = None
    /\ watchedliterals' = Some(WatchedLiterals_new(cnf))
    /\ LET s == get_assignment_from_single_clauses(cnf)
       IN  IF s = None
           THEN /\ Return(FALSE, "conflicting_singles")
                /\ UNCHANGED << initial_assignment, assignments_vec >>
           ELSE /\ state' = "Level0"
                /\ initial_assignment' = s[1]
                /\ assignments_vec' = iter(s[1])
                /\ UNCHANGED << result, exit >>
    /\ UNCHANGED << cnf, lit, dec_levels, in_bcp, propagations, tries, panic, run, first, hist >>
    /\ UNCHANGED building

\* for new_literal in assignments_vec: enter propagate_assignment with the next literal,
\* in the order the hash map of the assignment yields them
Level0Propagate ==
    /\ state = "Level0"
    /\ ~in_bcp
    /\ \E new_literal \in assignments_vec :
        /\ assignments_vec' = assignments_vec \ {new_literal}
        /\ IF get_lit(initial_assignment, new_literal) = Some(TRUE)
           THEN /\ in_bcp' = TRUE
                /\ propagations' = << new_literal >>
                /\ UNCHANGED << state, result, exit, panic >>
           ELSE /\ Abort("propagate_assignment: debug_assert")
                /\ UNCHANGED << in_bcp, propagations >>
    /\ UNCHANGED << cnf, lit, watchedliterals, initial_assignment, dec_levels, tries,
                    run, first, hist >>
    /\ UNCHANGED building

\* one iteration of the while loop of propagate_assignment
BcpStep ==
    /\ in_bcp
    /\ propagations # << >>
    /\ LET r == propagate_step(watchedliterals[1], cnf, current_assignment, propagations)
       IN  /\ watchedliterals' = Some(r.W)
           /\ propagations' = r.propagations
           /\ updates' = updates + 1
           /\ last_update' = (IF r.kind = "Continue" THEN "Satisfiable" ELSE r.kind)
           /\ derived' = IF dec_levels # << >> /\ r.kind = "Continue"
                         THEN [derived EXCEPT ![Len(derived)] =
                                @ \cup {r.propagations[i] :
                                        i \in Len(propagations)..Len(r.propagations)}]
                         ELSE derived
           /\ IF dec_levels = << >>
              THEN /\ initial_assignment' = r.assignment
                   /\ UNCHANGED dec_levels
              ELSE /\ dec_levels' = [dec_levels EXCEPT ![Len(dec_levels)].assignment = r.assignment]
                   /\ UNCHANGED initial_assignment
           /\ CASE r.kind = "Continue" ->
                    UNCHANGED << state, result, exit, panic, in_bcp >>
                [] r.kind = "Unsatisfiable" ->
                    /\ in_bcp' = FALSE
                    /\ IF state = "Level0"
                       THEN Return(FALSE, "level0_conflict") /\ UNCHANGED panic
                       ELSE state' = "Backtrack" /\ UNCHANGED << result, exit, panic >>
                [] OTHER ->
                    /\ in_bcp' = FALSE
                    /\ Abort(r.site)
    /\ UNCHANGED << cnf, lit, assignments_vec, tries, run, first, evals, last_eval, pushed, checks >>
    /\ UNCHANGED building

\* the queue of propagate_assignment is empty: return AssignmentDone
BcpDone ==
    /\ in_bcp
    /\ propagations = << >>
    /\ in_bcp' = FALSE
    /\ state' = IF state = "PropagateAssignment" THEN "CheckCurrentLevel" ELSE state
    /\ UNCHANGED << cnf, lit, watchedliterals, initial_assignment, assignments_vec, dec_levels,
                    propagations, tries, result, exit, panic, run, first, hist >>
    /\ UNCHANGED building

\* the initial check counted and evaluated, but without its return
InitialCheck_no_return ==
    /\ state = "Level0"
    /\ ~in_bcp
    /\ assignments_vec = {}
    /\ tries' = tries + 1
    /\ evals' = evals + 1
    /\ last_eval' = Some(initial_assignment)
    /\ state' = "CheckCurrentLevel"
    /\ UNCHANGED << cnf, lit, watchedliterals, initial_assignment, assignments_vec, dec_levels,
                    in_bcp, propagations, result, exit, panic, run, first, pushed, updates,
                    checks, last_update, derived >>
    /\ UNCHANGED building

\* stats.tries += 1; cnf.is_satisfied(&initial_assignment)
InitialCheck ==
    /\ state = "Level0"
    /\ ~in_bcp
    /\ assignments_vec = {}
    /\ tries' = tries + 1
    /\ evals' = evals + 1
    /\ last_eval' = Some(initial_assignment)
    /\ IF Cnf_is_satisfied(cnf, initial_assignment)
       THEN Return(TRUE, "initial_assignment")
       ELSE state' = "CheckCurrentLevel" /\ UNCHANGED << result, exit >>
    /\ UNCHANGED << cnf, lit, watchedliterals, initial_assignment, assignments_vec, dec_levels,
                    in_bcp, propagations, panic, run, first, pushed, updates, checks,
                    last_update, derived >>
    /\ UNCHANGED building

\* State::CheckCurrentLevel
CheckCurrentLevel ==
    /\ state = "CheckCurrentLevel"
    /\ IF dec_levels # << >>
       THEN LET c == check_assignment(cnf, dec_levels[Len(dec_levels)].assignment, tries)
            IN  /\ tries' = c.tries
                /\ evals' = evals + 1
                /\ checks' = checks + 1
                /\ last_eval' = Some(dec_levels[Len(dec_levels)].assignment)
                /\ IF c.result
                   THEN Return(TRUE, "check_current_level")
                   ELSE state' = "AssignNewVar" /\ UNCHANGED << result, exit >>
       ELSE /\ state' = "AssignNewVar"
            /\ UNCHANGED << tries, evals, checks, last_eval, result, exit >>
    /\ UNCHANGED << cnf, lit, watchedliterals, initial_assignment, assignments_vec, dec_levels,
                    in_bcp, propagations, panic, run, first, pushed, updates, last_update,
                    derived >>
    /\ UNCHANGED building

\* State::AssignNewVar
AssignNewVar ==
    /\ state = "AssignNewVar"
    /\ LET var == choose_next_var(highest_var(cnf), dec_levels, initial_assignment)
       IN  IF var = None
           THEN state' = "Backtrack" /\ UNCHANGED lit
           ELSE state' = "NewDecLevelWithAssignment" /\ lit' = Some(<< var[1], FIRST_TRY >>)
    /\ UNCHANGED << cnf, watchedliterals, initial_assignment, assignments_vec, dec_levels,
                    in_bcp, propagations, tries, result, exit, panic, run, first, hist >>
    /\ UNCHANGED building

\* State::Backtrack
Backtrack ==
    /\ state = "Backtrack"
    /\ LET r == backtrack(dec_levels)
           n == Len(r.dec_levels)
       IN  /\ dec_levels' = r.dec_levels
           /\ derived' = IF r.result = "ContinueWith"
                         THEN [SubSeq(derived, 1, n) EXCEPT ![n] = {}]
                         ELSE SubSeq(derived, 1, n)
           /\ CASE r.result = "UnsatisfiableFormula" ->
                    Return(FALSE, "backtrack") /\ UNCHANGED << lit, panic >>
                [] r.result = "ContinueWith" ->
                    state' = "PropagateAssignment" /\ lit' = r.lit /\ UNCHANGED << result, exit, panic >>
                [] OTHER ->
                    Abort("backtrack: unwrap") /\ UNCHANGED lit
    /\ UNCHANGED << cnf, watchedliterals, initial_assignment, assignments_vec,
                    in_bcp, propagations, tries, run, first, evals, last_eval, pushed, updates,
                    checks, last_update >>
    /\ UNCHANGED building

\* State::NewDecLevelWithAssignment
NewDecLevelWithAssignment ==
    /\ state = "NewDecLevelWithAssignment"
    /\ LET new_assigned_lit == lit[1]
           new_dl == [assignment |-> with(current_assignment,
                                          new_assigned_lit[1], new_assigned_lit[2]),
                      changed_var |-> new_assigned_lit[1],
                      next_var_at_least |-> new_next_var_at_least(dec_levels, new_assigned_lit),
                      flipped |-> FALSE]
       IN  dec_levels' = Append(dec_levels, new_dl)
    /\ pushed' = pushed + 1
    /\ derived' = Append(derived, {})
    /\ state' = "PropagateAssignment"
    /\ UNCHANGED << cnf, lit, watchedliterals, initial_assignment, assignments_vec,
                    in_bcp, propagations, tries, result, exit, panic, run, first,
                    evals, last_eval, updates, checks, last_update >>
    /\ UNCHANGED building

\* State::PropagateAssignment: the assertions, then enter propagate_assignment
PropagateAssignment ==
    /\ state = "PropagateAssignment"
    /\ ~in_bcp
    /\ IF dec_levels = << >>
       THEN /\ Abort("PropagateAssignment: no decision level")
            /\ UNCHANGED << in_bcp, propagations >>
       ELSE IF get_lit(dec_levels[Len(dec_levels)].assignment, lit[1]) # Some(TRUE)
       THEN /\ Abort("PropagateAssignment: debug_assert")
            /\ UNCHANGED << in_bcp, propagations >>
       ELSE /\ in_bcp' = TRUE
            /\ propagations' = << lit[1] >>
            /\ UNCHANGED << state, result, exit, panic >>
    /\ UNCHANGED << cnf, lit, watchedliterals, initial_assignment, assignments_vec, dec_levels,
                    tries, run, first, hist >>
    /\ UNCHANGED building

\* the caller invokes is_satisfiable again on the same formula
Rerun ==
    /\ state \in {"Returned", "Aborted"}
    /\ run < Runs
    /\ run' = run + 1
    /\ first' = IF first = None
                THEN Some([state |-> state, result |-> result, tries |-> tries])
                ELSE first
    /\ state' = "Start"
    /\ lit' = None
    /\ watchedliterals' = None
    /\ initial_assignment' = Assignment_new
    /\ assignments_vec' = {}
    /\ dec_levels' = << >>
    /\ in_bcp' = FALSE
    /\ propagations' = << >>
    /\ tries' = 0
    /\ result' = None
    /\ exit' = ""
    /\ panic' = ""
    /\ evals' = 0
    /\ last_eval' = None
    /\ pushed' = 0
    /\ updates' = 0
    /\ checks' = 0
    /\ last_update' = ""
    /\ derived' = << >>
    /\ UNCHANGED cnf
    /\ UNCHANGED building

\* the variables occurring in a formula
variables(clauses) ==
    UNION {{clauses[i].positive[j] : j \in 1..Len(clauses[i].positive)}
             \cup {clauses[i].negative[j] : j \in 1..Len(clauses[i].negative)} :
           i \in 1..Len(clauses)}

\* the assignments a caller can pass for a formula: total functions on a set of its variables
Assignments(clauses) == UNION {[D -> BOOLEAN] : D \in SUBSET variables(clauses)}

\* WatchedLiterals::new for a formula, before any call of update
InitIndex ==
    /\ cnf \in IndexInputs
    /\ state = "Index"
    /\ lit = None
    /\ watchedliterals = Some(WatchedLiterals_new(cnf))
    /\ initial_assignment = Assignment_new
    /\ assignments_vec = {}
    /\ dec_levels = << >>
    /\ in_bcp = FALSE
    /\ propagations = << >>
    /\ tries = 0
    /\ result = None
    /\ exit = ""
    /\ panic = ""
    /\ run = 1
    /\ first = None
    /\ evals = 0
    /\ last_eval = None
    /\ pushed = 0
    /\ updates = 0
    /\ checks = 0
    /\ last_update = ""
    /\ derived = << >>
    /\ clause = None
    /\ last_add = None
    /\ input = << >>
    /\ parts = << >>
    /\ with_result = None
    /\ found = None
    /\ replaced = None

\* a caller invokes update(cnf, assignment, new_assignment) on the index, with any
\* assignment and literal that pass the assertion at the head of update
IndexUpdate ==
    /\ state = "Index"
    /\ \E a \in Assignments(cnf) : \E var \in DOMAIN a : \E val \in BOOLEAN :
        LET r == update(watchedliterals[1], cnf, a, << var, val >>)
        IN  /\ watchedliterals' = Some(r.W)
            /\ last_update' = r.kind
            /\ IF r.kind = "panic"
               THEN state' = "Aborted" /\ panic' = r.site
               ELSE UNCHANGED << state, panic >>
    /\ UNCHANGED << cnf, lit, initial_assignment, assignments_vec, dec_levels, in_bcp,
                    propagations, tries, result, exit, run, first, evals, last_eval, pushed,
                    updates, checks, derived >>
    /\ UNCHANGED building

NextIndex == IndexUpdate

\* any sequence of update calls on a freshly built index
SpecIndex == InitIndex /\ [][NextIndex]_vars

\* the formulas whose index replace_watched_literal is called on: those of IndexInputs and
\* one in which three clauses watch the same two literals:   "1 2 3 / 1 2 4 / 1 2 -3"
ReplaceInputs ==
    IndexInputs \cup
        { << Cls(<< 1, 2, 3 >>, << >>), Cls(<< 1, 2, 4 >>, << >>), Cls(<< 1, 2 >>, << 3 >>) >> }

\* WatchedLiterals::new for a formula, before any call of replace_watched_literal
InitReplace ==
    /\ cnf \in ReplaceInputs
    /\ state = "Replace"
    /\ lit = None
    /\ watchedliterals = Some(WatchedLiterals_new(cnf))
    /\ initial_assignment = Assignment_new
    /\ assignments_vec = {}
    /\ dec_levels = << >>
    /\ in_bcp = FALSE
    /\ propagations = << >>
    /\ tries = 0
    /\ result = None
    /\ exit = ""
    /\ panic = ""
    /\ run = 1
    /\ first = None
    /\ evals = 0
    /\ last_eval = None
    /\ pushed = 0
    /\ updates = 0
    /\ checks = 0
    /\ last_update = ""
    /\ derived = << >>
    /\ clause = None
    /\ last_add = None
    /\ input = << >>
    /\ parts = << >>
    /\ with_result = None
    /\ found = None
    /\ replaced = None

\* a caller invokes replace_watched_literal(clause_idx, old_wl, new_wl) for a clause that
\* watches old_wl and a literal new_wl of the clause other than its other watched literal,
\* as update does with the literal find_replacement_literal returned (which is old_wl
\* itself when the assignment satisfies old_wl)
Replace ==
    /\ state = "Replace"
    /\ \E clause_idx \in 1..Len(cnf) :
        /\ watchedliterals[1].watched_literals[clause_idx] # None
        /\ LET wls == watchedliterals[1].watched_literals[clause_idx][1]
               lits == literals(cnf[clause_idx])
           IN  \E old_wl \in {wls[1], wls[2]} :
               \E new_wl \in {lits[k] : k \in 1..Len(lits)} \ ({wls[1], wls[2]} \ {old_wl}) :
                LET r == replace_watched_literal(watchedliterals[1], clause_idx, old_wl, new_wl)
                IN  /\ watchedliterals' = Some(r.W)
                    /\ replaced' = Some(<< clause_idx, old_wl, new_wl >>)
                    /\ IF r.panic # ""
                       THEN state' = "Aborted" /\ panic' = r.panic
                       ELSE UNCHANGED << state, panic >>
    /\ UNCHANGED << cnf, lit, initial_assignment, assignments_vec, dec_levels, in_bcp,
                    propagations, tries, result, exit, run, first, hist >>
    /\ UNCHANGED << clause, last_add, input, parts, with_result, found >>

NextReplace == Replace

\* any sequence of replace_watched_literal calls on a freshly built index
SpecReplace == InitReplace /\ [][NextReplace]_vars

\* the formulas whose index update is called on: those of three two-literal clauses, the
\* formula of test_watchedliteral_update_simple, and two over three variables in which
\* every clause watches literal 1:
\*   "2 3",   "1 2 3 / 1 2 -3 / 1 -2"   and   "1 2 3 / 1 -2 -3"
UpdateInputs ==
    BinaryInputs \cup
        { << Cls(<< 2, 3 >>, << >>) >>,
          << Cls(<< 1, 2, 3 >>, << >>), Cls(<< 1, 2 >>, << 3 >>), Cls(<< 1 >>, << 2 >>) >>,
          << Cls(<< 1, 2, 3 >>, << >>), Cls(<< 1 >>, << 2, 3 >>) >> }

\* WatchedLiterals::new for a formula, before any call of update
InitUpdate ==
    /\ cnf \in UpdateInputs
    /\ state = "Update"
    /\ lit = None
    /\ watchedliterals = Some(WatchedLiterals_new(cnf))
    /\ initial_assignment = Assignment_new
    /\ assignments_vec = {}
    /\ dec_levels = << >>
    /\ in_bcp = FALSE
    /\ propagations = << >>
    /\ tries = 0
    /\ result = None
    /\ exit = ""
    /\ panic = ""
    /\ run = 1
    /\ first = None
    /\ evals = 0
    /\ last_eval = None
    /\ pushed = 0
    /\ updates = 0
    /\ checks = 0
    /\ last_update = ""
    /\ derived = << >>
    /\ clause = None
    /\ last_add = None
    /\ input = << >>
    /\ parts = << >>
    /\ with_result = None
    /\ found = None
    /\ replaced = None

\* the caller prepares a call update(cnf, assignment, new_assignment): any assignment and
\* any literal that pass the assertion at the head of update
UpdateCall ==
    /\ state = "Update"
    /\ lit = None \/ last_update # ""
    /\ \E a \in Assignments(cnf) : \E var \in DOMAIN a : \E val \in BOOLEAN :
        /\ initial_assignment' = a
        /\ lit' = Some(<< var, val >>)
    /\ propagations' = << >>
    /\ last_update' = ""
    /\ UNCHANGED << cnf, state, watchedliterals, assignments_vec, dec_levels, in_bcp, tries,
                    result, exit, panic, run, first, evals, last_eval, pushed, updates,
                    checks, derived >>
    /\ UNCHANGED building

\* update(cnf, initial_assignment, lit) runs on the index and returns
Update ==
    /\ state = "Update"
    /\ lit # None
    /\ last_update = ""
    /\ LET r == update(watchedliterals[1], cnf, initial_assignment, lit[1])
       IN  /\ watchedliterals' = Some(r.W)
           /\ propagations' = r.propagations
           /\ last_update' = r.kind
           /\ IF r.kind = "panic"
              THEN state' = "Aborted" /\ panic' = r.site
              ELSE UNCHANGED << state, panic >>
    /\ UNCHANGED << cnf, lit, initial_assignment, assignments_vec, dec_levels, in_bcp, tries,
                    result, exit, run, first, evals, last_eval, pushed, updates, checks,
                    derived >>
    /\ UNCHANGED building

NextUpdate == UpdateCall \/ Update

\* any sequence of update calls on a freshly built index, each with its arguments on record
SpecUpdate == InitUpdate /\ [][NextUpdate]_vars

\* no index is built and no search is in progress
NoSearch ==
    /\ watchedliterals = None
    /\ assignments_vec = {}
    /\ dec_levels = << >>
    /\ in_bcp = FALSE
    /\ propagations = << >>
    /\ tries = 0
    /\ result = None
    /\ exit = ""
    /\ panic = ""
    /\ run = 1
    /\ first = None
    /\ evals = 0
    /\ last_eval = None
    /\ pushed = 0
    /\ updates = 0
    /\ checks = 0
    /\ last_update = ""
    /\ derived = << >>

\* no call of is_satisfiable is in progress
NoSolverRun ==
    /\ lit = None
    /\ initial_assignment = Assignment_new
    /\ NoSearch

solver == << cnf, lit, watchedliterals, initial_assignment, assignments_vec, dec_levels,
            in_bcp, propagations, tries, result, exit, run, first, hist >>

\* Clause::new
InitClause ==
    /\ NoSolverRun
    /\ cnf = << >>
    /\ state = "Clause"
    /\ clause = Some(Clause_new)
    /\ last_add = None
    /\ input = << >>
    /\ parts = << >>
    /\ with_result = None
    /\ found = None
    /\ replaced = None

\* a caller invokes clause.add_positive(var)
AddPositive ==
    /\ state = "Clause"
    /\ \E var \in 1..MaxAddVar :
        LET r == add_positive(clause[1], var)
        IN  /\ last_add' = Some(<< var, TRUE >>)
            /\ clause' = Some(r.clause)
            /\ IF r.panic
               THEN state' = "Aborted" /\ panic' = "add_positive: panic"
               ELSE UNCHANGED << state, panic >>
    /\ UNCHANGED << solver, input, parts, with_result, found, replaced >>

\* a caller invokes clause.add_negative(var)
AddNegative ==
    /\ state = "Clause"
    /\ \E var \in 1..MaxAddVar :
        LET r == add_negative(clause[1], var)
        IN  /\ last_add' = Some(<< var, FALSE >>)
            /\ clause' = Some(r.clause)
            /\ IF r.panic
               THEN state' = "Aborted" /\ panic' = "add_negative: panic"
               ELSE UNCHANGED << state, panic >>
    /\ UNCHANGED << solver, input, parts, with_result, found, replaced >>

NextClause == AddPositive \/ AddNegative

\* any sequence of add_positive and add_negative calls on a new clause
SpecClause == InitClause /\ [][NextClause]_vars

\* a caller holds any assignment of the variables 1..MaxAddVar and picks the arguments
\* of Assignment::with
InitWithCall ==
    /\ NoSearch
    /\ initial_assignment \in UNION {[D -> BOOLEAN] : D \in SUBSET (1..MaxAddVar)}
    /\ lit \in {Some(<< var, val >>) : var \in 1..MaxAddVar, val \in BOOLEAN}
    /\ cnf = << >>
    /\ state = "With"
    /\ clause = None
    /\ last_add = None
    /\ input = << >>
    /\ parts = << >>
    /\ with_result = None
    /\ found = None
    /\ replaced = None

\* the caller invokes initial_assignment.with(var, val)
With ==
    /\ state = "With"
    /\ with_result = None
    /\ with_result' = Some(with(initial_assignment, lit[1][1], lit[1][2]))
    /\ UNCHANGED << solver, state, panic, clause, last_add, input, parts, found, replaced >>

NextWith == With

\* one call of Assignment::with on any assignment
SpecWith == InitWithCall /\ [][NextWith]_vars

\* the assignments of variables among 1..MaxAddVar
SmallAssignments == UNION {[D -> BOOLEAN] : D \in SUBSET (1..MaxAddVar)}

\* the stacks choose_next_var reads one level of: none, or a top level with any
\* assignment of 1..MaxAddVar that holds its decided variable and any next_var_at_least
TopLevels ==
    {<< >>} \cup
    UNION {{<< [assignment |-> a, changed_var |-> v, next_var_at_least |-> n,
                flipped |-> a[v]] >> : v \in DOMAIN a, n \in 0..MaxAddVar} :
           a \in SmallAssignments}

\* State::AssignNewVar is entered with a formula whose highest variable is any of
\* 0..MaxAddVar + 1, any top level and, under an empty stack, any level-0 assignment
InitChoose ==
    /\ cnf \in {<< >>} \cup {<< Cls(<< m >>, << >>) >> : m \in 1..(MaxAddVar + 1)}
    /\ dec_levels \in TopLevels
    /\ initial_assignment \in (IF dec_levels = << >> THEN SmallAssignments ELSE {Assignment_new})
    /\ pushed = Len(dec_levels)
    /\ derived = [k \in 1..Len(dec_levels) |-> {}]
    /\ state = "AssignNewVar"
    /\ lit = None
    /\ watchedliterals = None
    /\ assignments_vec = {}
    /\ in_bcp = FALSE
    /\ propagations = << >>
    /\ tries = 0
    /\ result = None
    /\ exit = ""
    /\ panic = ""
    /\ run = 1
    /\ first = None
    /\ evals = 0
    /\ last_eval = None
    /\ updates = 0
    /\ checks = 0
    /\ last_update = ""
    /\ clause = None
    /\ last_add = None
    /\ input = << >>
    /\ parts = << >>
    /\ with_result = None
    /\ found = None
    /\ replaced = None

NextChoose == AssignNewVar

\* one call of choose_next_var, as State::AssignNewVar makes it
SpecChoose == InitChoose /\ [][NextChoose]_vars

RECURSIVE Stacks(_)
\* the decision stacks of n levels that decide the variables 1..n in this order: each
\* level's assignment is the one below it with the decided variable, at either value, and
\* each level is flipped or not
Stacks(n) ==
    IF n = 0 THEN {<< >>}
    ELSE {Append(st, [assignment |-> with(last_or(st, "assignment", Assignment_new), n, val),
                      changed_var |-> n,
                      next_var_at_least |-> n,
                      flipped |-> fl]) :
            st \in Stacks(n - 1), val \in BOOLEAN, fl \in BOOLEAN}

\* a caller holds a decision stack of at most MaxLevels levels
InitBacktrack ==
    /\ dec_levels \in UNION {Stacks(n) : n \in 0..MaxLevels}
    /\ pushed = Len(dec_levels)
    /\ derived = [k \in 1..Len(dec_levels) |-> {}]
    /\ state = "Backtrack"
    /\ cnf = << >>
    /\ lit = None
    /\ watchedliterals = None
    /\ initial_assignment = Assignment_new
    /\ assignments_vec = {}
    /\ in_bcp = FALSE
    /\ propagations = << >>
    /\ tries = 0
    /\ result = None
    /\ exit = ""
    /\ panic = ""
    /\ run = 1
    /\ first = None
    /\ evals = 0
    /\ last_eval = None
    /\ updates = 0
    /\ checks = 0
    /\ last_update = ""
    /\ clause = None
    /\ last_add = None
    /\ input = << >>
    /\ parts = << >>
    /\ with_result = None
    /\ found = None
    /\ replaced = None

NextBacktrack == Backtrack

\* one call of backtrack, as State::Backtrack makes it, on any such stack
SpecBacktrack == InitBacktrack /\ [][NextBacktrack]_vars

\* the clauses find_replacement_literal is called on: the non-empty Clause values over the
\* variables 1..MaxFindLen
FindClauses ==
    {c \in [positive : InjSeqs(1..MaxFindLen, MaxFindLen),
            negative : InjSeqs(1..MaxFindLen, MaxFindLen)] :
        /\ Len(c.positive) + Len(c.negative) \in 1..MaxFindLen
        /\ \A i \in 1..Len(c.positive) : ~contains(c.negative, c.positive[i])}

\* a caller holds a clause, any assignment of its variables and, as second_wl, any literal
\* of the clause
InitFind ==
    /\ NoSearch
    /\ cnf = << >>
    /\ state = "Find"
    /\ clause \in {Some(c) : c \in FindClauses}
    /\ initial_assignment \in Assignments(<< clause[1] >>)
    /\ lit \in {Some(literals(clause[1])[i]) : i \in 1..Len(literals(clause[1]))}
    /\ last_add = None
    /\ input = << >>
    /\ parts = << >>
    /\ with_result = None
    /\ found = None
    /\ replaced = None

\* the caller invokes find_replacement_literal(clause, initial_assignment, second_wl)
Find ==
    /\ state = "Find"
    /\ found = None
    /\ LET f == find_replacement_literal(clause[1], initial_assignment, lit[1])
       IN  /\ found' = Some(f)
           /\ IF f.kind = "panic"
              THEN state' = "Aborted" /\ panic' = "find_replacement_literal: unreachable"
              ELSE UNCHANGED << state, panic >>
    /\ UNCHANGED << solver, clause, last_add, input, parts, with_result, replaced >>

NextFind == Find

\* one call of find_replacement_literal on any clause, assignment and literal of the clause
SpecFind == InitFind /\ [][NextFind]_vars

\* the tokens and line ends a text is made of: -1, 0, 1, 2, 4294967296, 4294967297,
\* "false", a word that is no number, and the end of a line
Symbols ==
    {Num(TRUE, 0, 1), Num(FALSE, 0, 0), Num(FALSE, 0, 1), Num(FALSE, 0, 2), Num(FALSE, 1, 0),
     Num(FALSE, 1, 1), Word("false"), Word("x"), Newline}

\* the texts passed to parse_cnf_from_str
Texts == UNION {[1..k -> Symbols] : k \in 0..MaxText}

\* parse_cnf_from_str is called on a text: Cnf::new() and the iterator over its lines
InitParse ==
    /\ NoSolverRun
    /\ input \in {lines(text, << >>) : text \in Texts}
    /\ cnf = << >>
    /\ state = "Parse"
    /\ clause = None
    /\ last_add = None
    /\ parts = << >>
    /\ with_result = None
    /\ found = None
    /\ replaced = None

\* the head of the loop body: the line "false", or the parts of the line collected
ParseLine ==
    /\ state = "Parse"
    /\ clause = None
    /\ input # << >>
    /\ LET line_clause == Head(input)
       IN  IF line_clause = << Word("false") >>
           THEN /\ cnf' = Append(cnf, Clause_new)
                /\ UNCHANGED << state, clause, parts >>
           ELSE IF ~all_parse(line_clause)
           THEN /\ state' = "Rejected"
                /\ UNCHANGED << cnf, clause, parts >>
           ELSE /\ clause' = Some(Clause_new)
                /\ parts' = line_clause
                /\ UNCHANGED << cnf, state >>
    /\ input' = Tail(input)
    /\ UNCHANGED << lit, watchedliterals, initial_assignment, assignments_vec, dec_levels,
                    in_bcp, propagations, tries, result, exit, panic, run, first, hist,
                    last_add, with_result, found, replaced >>

\* one iteration of `for part in parts`
ParsePart ==
    /\ state = "Parse"
    /\ clause # None
    /\ parts # << >>
    /\ parts' = Tail(parts)
    /\ LET part == Head(parts)
       IN  IF is_zero(part)
           THEN /\ state' = "Rejected"
                /\ UNCHANGED << clause, last_add, panic >>
           ELSE LET var == as_u32(part)
                    r == IF is_negative(part) THEN add_negative(clause[1], var)
                                              ELSE add_positive(clause[1], var)
                IN  /\ last_add' = Some(<< var, ~is_negative(part) >>)
                    /\ clause' = Some(r.clause)
                    /\ IF r.panic
                       THEN state' = "Aborted" /\ panic' = "add: panic"
                       ELSE UNCHANGED << state, panic >>
    /\ UNCHANGED << cnf, lit, watchedliterals, initial_assignment, assignments_vec, dec_levels,
                    in_bcp, propagations, tries, result, exit, run, first, hist,
                    input, with_result, found, replaced >>

\* cnf.clauses.push(clause) at the end of the loop body
PushClause ==
    /\ state = "Parse"
    /\ clause # None
    /\ parts = << >>
    /\ cnf' = Append(cnf, clause[1])
    /\ clause' = None
    /\ UNCHANGED << state, lit, watchedliterals, initial_assignment, assignments_vec, dec_levels,
                    in_bcp, propagations, tries, result, exit, panic, run, first, hist,
                    last_add, input, parts, with_result, found, replaced >>

\* Some(cnf) after the last line
ParseReturn ==
    /\ state = "Parse"
    /\ clause = None
    /\ input = << >>
    /\ state' = "Parsed"
    /\ UNCHANGED << solver, panic, building >>

NextParse == ParseLine \/ ParsePart \/ PushClause \/ ParseReturn

\* one call of parse_cnf_from_str on any text
SpecParse == InitParse /\ [][NextParse]_vars

Next ==
    \/ FastChecks
    \/ BuildInitialAssignment
    \/ Level0Propagate
    \/ BcpStep
    \/ BcpDone
    \/ InitialCheck
    \/ CheckCurrentLevel
    \/ AssignNewVar
    \/ Backtrack
    \/ NewDecLevelWithAssignment
    \/ PropagateAssignment

\* one call of is_satisfiable
Spec == Init /\ [][Next]_vars

NextTwice == Next \/ Rerun

\* Runs calls of is_satisfiable on the same formula, one after the other
SpecTwice == Init /\ [][NextTwice]_vars

\* the scheduling of a sequential program: a step that can be taken is taken
FairSpec == Init /\ [][Next]_vars /\ WF_vars(Next)

InitConflict == Init \/ InitFind

NextConflict == Next \/ Find

\* the calls that report a conflict: a call of is_satisfiable on any input formula, whose
\* BCP calls update, or one call of find_replacement_literal on any clause, assignment and
\* literal of the clause
SpecConflict == InitConflict /\ [][NextConflict]_vars

TypeOK ==
    /\ state \in {"Start", "Level0", "CheckCurrentLevel", "AssignNewVar",
                  "NewDecLevelWithAssignment", "PropagateAssignment", "Backtrack",
                  "Returned", "Aborted", "Index", "Clause", "Parse", "Parsed", "Rejected",
                  "With", "Find", "Replace", "Update"}
    /\ in_bcp \in BOOLEAN
    /\ tries \in Nat
    /\ run \in 1..Runs

\* ------------------------------------------------------------------------
\* Vocabulary of the properties (propositional semantics, independent of the code)
\* ------------------------------------------------------------------------

\* the set of literals of a clause
LitSet(cls) ==
    {<< cls.positive[i], TRUE >> : i \in 1..Len(cls.positive)}
        \cup {<< cls.negative[i], FALSE >> : i \in 1..Len(cls.negative)}

\* the variables of a formula
VarsOf(clauses) == UNION {{l[1] : l \in LitSet(clauses[i])} : i \in 1..Len(clauses)}

\* the (partial) assignment a gives every clause a literal that it makes true
Models(a, clauses) ==
    \A i \in 1..Len(clauses) :
        \E l \in LitSet(clauses[i]) : l[1] \in DOMAIN a /\ a[l[1]] = l[2]

\* exhaustive enumeration of the total assignments of the formula's variables
Satisfiable(clauses) == \E a \in [VarsOf(clauses) -> BOOLEAN] : Models(a, clauses)

\* two single-literal clauses hold opposite literals of one variable
ConflictingSingletons(clauses) ==
    \E i, j \in 1..Len(clauses) :
        /\ Len(clauses[i].positive) = 1
        /\ clauses[i].negative = << >>
        /\ clauses[j].positive = << >>
        /\ Len(clauses[j].negative) = 1
        /\ clauses[i].positive[1] = clauses[j].negative[1]

\* some clause has no literal
HasEmptyClause(clauses) ==
    \E i \in 1..Len(clauses) : clauses[i].positive = << >> /\ clauses[i].negative = << >>

\* how many positions of the list vec hold x
Occurrences(vec, x) == Cardinality({p \in 1..Len(vec) : vec[p] = x})

\* the literals clause i watches in the index W (none when it has no watched pair)
WatchedOf(W, i) ==
    IF W.watched_literals[i] = None THEN {}
    ELSE {W.watched_literals[i][1][1], W.watched_literals[i][1][2]}

\* the access list of literal L in the index W (empty when the map has no entry)
AccessList(W, L) == IF L \in DOMAIN W.access_map THEN W.access_map[L] ELSE << >>

\* (I2) clause i is listed under L exactly once if i watches L and not at all otherwise
AccessMapAgrees(W) ==
    \A i \in 1..Len(W.watched_literals) :
        \A L \in (DOMAIN W.access_map) \cup WatchedOf(W, i) :
            Occurrences(AccessList(W, L), i) = (IF L \in WatchedOf(W, i) THEN 1 ELSE 0)

\* clause i of the index W has a watched literal that a satisfies or leaves unassigned
HasLiveWatch(W, i, a) == \E w \in WatchedOf(W, i) : get_lit(a, w) # Some(FALSE)

\* (I3) every clause of length >= 2 has a watched literal satisfied or unassigned under a
WatchesLive(W, clauses, a) ==
    \A i \in 1..Len(clauses) : Len(literals(clauses[i])) >= 2 => HasLiveWatch(W, i, a)

\* the step is a call of update, made by BCP, that returns Satisfiable
UpdateReturnsSatisfiable == updates' = updates + 1 /\ last_update' = "Satisfiable"

\* the clauses listed under the negation of literal l in the index W
Watching(W, l) ==
    {AccessList(W, << l[1], ~l[2] >>)[p] : p \in 1..Len(AccessList(W, << l[1], ~l[2] >>))}

\* ------------------------------------------------------------------------
\* Properties
\* ------------------------------------------------------------------------

\* C1: when is_satisfiable returns, its verdict is SAT if and only if some assignment of
\* the formula's variables satisfies every clause (the verdict of exhaustive enumeration).
C1_VerdictIsExact == state = "Returned" => result = Some(Satisfiable(cnf))

\* C2: a call of is_satisfiable never aborts (no panic, unreachable!(), failed
\* expect/unwrap or failed assertion), in level-0 propagation or in the search.
C2_NeverAborts == state # "Aborted"

\* C3: every call of is_satisfiable eventually returns a verdict.
C3_EventuallyReturns == <>(state = "Returned")

\* C4: a second call on the same formula ends as the first one did: same verdict and same
\* evaluation count, whatever order the level-0 literals were taken in.
C4_SameOutcome ==
    (first # None /\ state \in {"Returned", "Aborted"}) =>
        /\ state = first[1].state
        /\ result = first[1].result
        /\ (state = "Returned" => tries = first[1].tries)

\* the return statements taken before the initial assignment is evaluated
EarlyExits == {"no_clauses", "empty_clause", "conflicting_singles", "level0_conflict"}

\* C5: when is_satisfiable returns SAT for a formula with at least one clause, the
\* assignment it evaluated last is the level-0 assignment or the top level's assignment,
\* and it satisfies every clause.
C5_SatHasWitness ==
    (state = "Returned" /\ result = Some(TRUE) /\ cnf # << >>) =>
        /\ last_eval = Some(current_assignment)
        /\ Models(last_eval[1], cnf)

\* C5 witness: SAT returned from CheckCurrentLevel, on the assignment of a flipped level
C5_Witness ==
    /\ state = "Returned"
    /\ exit = "check_current_level"
    /\ dec_levels[Len(dec_levels)].flipped

\* C6: on every return stats.tries is the number of evaluations of the formula: 0 on the
\* returns before the initial check, else 1 plus the number of CheckCurrentLevel steps
\* executed with a non-empty decision stack.
C6_TriesCountEvaluations ==
    state = "Returned" =>
        /\ tries = evals
        /\ tries = (IF exit \in EarlyExits THEN 0 ELSE 1 + checks)

\* C6 witness: a return after several CheckCurrentLevel evaluations
C6_Witness == state = "Returned" /\ checks >= 2

\* C7: a formula with no clauses is reported SAT with evaluation count 0; no index is
\* built and no decision level is pushed.
C7_NoClauses ==
    cnf = << >> =>
        /\ state \in {"Start", "Returned"}
        /\ watchedliterals = None
        /\ pushed = 0
        /\ dec_levels = << >>
        /\ state = "Returned" => (result = Some(TRUE) /\ tries = 0 /\ evals = 0)

\* C7 witness: the call on the formula without clauses has returned
C7_Witness == cnf = << >> /\ state = "Returned" /\ exit = "no_clauses"

\* C8: a formula with an empty clause is reported UNSAT with evaluation count 0, before
\* any watched-literal update, propagation or decision, wherever the empty clause stands.
C8_EmptyClause ==
    HasEmptyClause(cnf) =>
        /\ state \in {"Start", "Returned"}
        /\ updates = 0
        /\ ~in_bcp
        /\ pushed = 0
        /\ state = "Returned" => (result = Some(FALSE) /\ tries = 0 /\ evals = 0)

\* C8 witness: returned on a formula whose empty clause stands after a two-literal clause
C8_Witness ==
    /\ state = "Returned"
    /\ Len(cnf) = 2
    /\ LitSet(cnf[2]) = {}
    /\ Cardinality(LitSet(cnf[1])) = 2

\* C9: with two opposite single-literal clauses and no empty clause, is_satisfiable
\* returns UNSAT with evaluation count 0, before any propagation or decision level.
C9_ConflictingSingletons ==
    (ConflictingSingletons(cnf) /\ ~HasEmptyClause(cnf)) =>
        /\ state \in {"Start", "Returned"}
        /\ updates = 0
        /\ ~in_bcp
        /\ pushed = 0
        /\ state = "Returned" => (result = Some(FALSE) /\ tries = 0 /\ evals = 0)

\* C9 witness: returned on a formula whose second singleton is the negative literal
C9_Witness ==
    /\ state = "Returned"
    /\ exit = "conflicting_singles"
    /\ LitSet(cnf[Len(cnf)]) = {<< 2, FALSE >>}

\* C10: once the level-0 assignment has been evaluated, if it satisfies the formula the
\* call has returned SAT with evaluation count 1 and no decision level was ever pushed.
C10_Level0Settles ==
    (evals >= 1 /\ Models(initial_assignment, cnf)) =>
        /\ state = "Returned"
        /\ result = Some(TRUE)
        /\ tries = 1
        /\ pushed = 0
        /\ dec_levels = << >>

\* C10 witness: SAT returned on a level-0 assignment holding a literal derived by BCP
C10_Witness ==
    /\ state = "Returned"
    /\ exit = "initial_assignment"
    /\ updates >= 1
    /\ \E v \in DOMAIN initial_assignment :
            \A i \in 1..Len(cnf) : LitSet(cnf[i]) # {<< v, initial_assignment[v] >>}

\* C11: after construction and after every call of update, in any sequence of calls, the
\* access map and the watched pairs agree: clause i is listed under literal L exactly once
\* if L is one of the two literals clause i watches, and not at all otherwise.
C11_AccessMapAgrees == state = "Index" => AccessMapAgrees(watchedliterals[1])

\* C11 witness: after updates that moved watches, a literal watched at construction has
\* an empty list and a literal not watched at construction lists a clause
C11_Witness ==
    /\ state = "Index"
    /\ last_update = "Satisfiable"
    /\ Len(cnf) >= 2
    /\ \E L \in DOMAIN watchedliterals[1].access_map : watchedliterals[1].access_map[L] = << >>
    /\ \E L \in DOMAIN watchedliterals[1].access_map :
            /\ L \notin DOMAIN WatchedLiterals_new(cnf).access_map
            /\ watchedliterals[1].access_map[L] # << >>

\* C12: after every update call that returns Satisfiable during a solver run, every clause
\* of length >= 2 has a watched literal that is satisfied or unassigned under the
\* assignment that was passed to that call.
C12_WatchesLiveAfterUpdate ==
    [][UpdateReturnsSatisfiable =>
            WatchesLive(watchedliterals'[1], cnf, current_assignment)]_vars

\* C12 as amended: after every update call that returns Satisfiable during a solver run,
\* every clause that watched the falsified literal when the call began has a watched
\* literal that is satisfied or unassigned under the assignment passed to that call.
C12_ExaminedWatchesLive ==
    [][UpdateReturnsSatisfiable =>
            \A i \in Watching(watchedliterals[1], Head(propagations)) :
                HasLiveWatch(watchedliterals'[1], i, current_assignment)]_vars

\* C12 witness: in the propagation after a flip, update returned Satisfiable and a clause
\* watches a literal it did not watch at construction
C12_Witness ==
    /\ in_bcp
    /\ last_update = "Satisfiable"
    /\ dec_levels # << >>
    /\ dec_levels[Len(dec_levels)].flipped
    /\ \E i \in 1..Len(cnf) :
            WatchedOf(watchedliterals[1], i) # WatchedOf(WatchedLiterals_new(cnf), i)

\* C13: in every reachable state of the index, a clause with fewer than two literals has no
\* watched pair and every other clause has a watched pair of two distinct literals that
\* both belong to the clause's literal set.
C13_WatchedPairs ==
    state = "Index" =>
        \A i \in 1..Len(cnf) :
            LET slot == watchedliterals[1].watched_literals[i]
            IN  IF Len(literals(cnf[i])) < 2
                THEN slot = None
                ELSE /\ slot # None
                     /\ slot[1][1] # slot[1][2]
                     /\ slot[1][1] \in LitSet(cnf[i])
                     /\ slot[1][2] \in LitSet(cnf[i])

\* C13 witness: after updates, a clause watches two literals neither of which it watched
\* at construction, next to a clause without watched pair
C13_Witness ==
    /\ state = "Index"
    /\ \E i \in 1..Len(cnf) : watchedliterals[1].watched_literals[i] = None
    /\ \E j \in 1..Len(cnf) :
            /\ watchedliterals[1].watched_literals[j] # None
            /\ WatchedOf(watchedliterals[1], j) \cap WatchedOf(WatchedLiterals_new(cnf), j) = {}

\* C14: after backtrack returned ContinueWith(l) and the BCP run seeded with l returned
\* Done, every clause of length >= 2 has a watched literal that is satisfied or unassigned
\* under the top decision level's assignment.
C14_WatchesLiveAfterFlip ==
    (state = "CheckCurrentLevel" /\ dec_levels # << >> /\ dec_levels[Len(dec_levels)].flipped) =>
        WatchesLive(watchedliterals[1], cnf, dec_levels[Len(dec_levels)].assignment)

\* the assignment of the level below level k (the level-0 assignment for the bottom level)
Below(k) == IF k = 1 THEN initial_assignment ELSE dec_levels[k - 1].assignment

\* the literal currently decided at level k
Decided(k) == << dec_levels[k].changed_var,
                 dec_levels[k].assignment[dec_levels[k].changed_var] >>

\* C15: at every point of the search, the assignment of each decision level equals the
\* assignment of the level below it (the level-0 assignment for the bottom level) extended
\* with exactly the literal currently decided at that level and the literals derived by
\* propagation from that literal; also for a level that backtrack has flipped.
C15_LevelsExtendBelow ==
    \A k \in 1..Len(dec_levels) :
        /\ iter(dec_levels[k].assignment) \subseteq
                iter(Below(k)) \cup {Decided(k)} \cup derived[k]
        /\ DOMAIN dec_levels[k].assignment =
                (DOMAIN Below(k)) \cup {dec_levels[k].changed_var} \cup {l[1] : l \in derived[k]}

\* the clause holds no variable in both polarities and no literal twice
NoContradiction(cls) ==
    /\ \A i \in 1..Len(cls.positive) : ~contains(cls.negative, cls.positive[i])
    /\ Cardinality(LitSet(cls)) = Len(cls.positive) + Len(cls.negative)

\* C16: add_positive(v) and add_negative(v) leave the clause unchanged when the same
\* literal is present, add the literal when the variable is absent, and abort when the
\* opposite literal is present; so after any sequence of returning calls no clause holds a
\* variable in both polarities or a literal twice.
C16_AddLiteral ==
    /\ [](state = "Clause" => NoContradiction(clause[1]))
    /\ [][state = "Clause" =>
            LET l == last_add'[1]
                before == LitSet(clause[1])
                after == LitSet(clause'[1])
            IN  IF l \in before
                THEN state' = "Clause" /\ clause' = clause
                ELSE IF << l[1], ~l[2] >> \in before
                THEN state' = "Aborted"
                ELSE /\ state' = "Clause"
                     /\ after = before \cup {l}
                     /\ Len(literals(clause'[1])) = Len(literals(clause[1])) + 1]_vars

\* C16 witness: a clause with literals of both polarities was built by returning calls,
\* the last of which added a literal that was already present
C16_Witness ==
    /\ state = "Clause"
    /\ last_add # None
    /\ Len(clause[1].positive) >= 1
    /\ Len(clause[1].negative) >= 2
    /\ last_add[1] \in LitSet(clause[1])
    /\ literals(clause[1])[Len(literals(clause[1]))] # last_add[1]

\* C17: for every assignment a, variable v and value b, a.with(v, b) returns an assignment
\* that maps v to b and agrees with a on every other variable, and a is unchanged.
C17_WithIsFunctional ==
    [][state = "With" =>
            LET a == initial_assignment
                n == with_result'[1]
                v == lit[1][1]
            IN  /\ get(n, v) = Some(lit[1][2])
                /\ \A x \in (1..MaxAddVar) \ {v} : get(n, x) = get(a, x)
                /\ initial_assignment' = a]_vars

\* C17 witness: with returned for a variable that was assigned the opposite value, next
\* to another assigned variable
C17_Witness ==
    /\ state = "With"
    /\ with_result # None
    /\ get(initial_assignment, lit[1][1]) = Some(~lit[1][2])
    /\ Cardinality(DOMAIN initial_assignment) >= 2
    /\ Cardinality(DOMAIN with_result[1]) = Cardinality(DOMAIN initial_assignment)

\* the step is a call of backtrack
BacktrackCalled == state = "Backtrack" /\ state' # "Backtrack"

\* backtrack returned UnsatisfiableFormula (the driver returns UNSAT from State::Backtrack)
ReturnedUnsatisfiableFormula == state = "Returned" /\ exit = "backtrack"

\* C18: backtrack returns UnsatisfiableFormula exactly when every level of the decision
\* stack is already flipped (the empty stack included), and then leaves the stack empty.
C18_UnsatisfiableWhenAllFlipped ==
    [][BacktrackCalled =>
            /\ ReturnedUnsatisfiableFormula' <=>
                    \A k \in 1..Len(dec_levels) : dec_levels[k].flipped
            /\ ReturnedUnsatisfiableFormula' => dec_levels' = << >>]_vars

\* C18 witness: UnsatisfiableFormula was returned on a stack that held several levels
C18_Witness == ReturnedUnsatisfiableFormula /\ pushed >= 2 /\ dec_levels = << >>

\* C19: when some level is unflipped, backtrack pops exactly the flipped levels above the
\* topmost unflipped level, sets that level's flipped, negates the value of its decided
\* variable in its assignment and returns ContinueWith of that literal (the driver goes on
\* to propagate it); the levels below and that level's decided variable, next_var_at_least
\* and other entries are unchanged.
C19_FlipsTopmostUnflipped ==
    [][(BacktrackCalled /\ \E k \in 1..Len(dec_levels) : ~dec_levels[k].flipped) =>
            LET t == CHOOSE k \in 1..Len(dec_levels) :
                        /\ ~dec_levels[k].flipped
                        /\ \A j \in (k + 1)..Len(dec_levels) : dec_levels[j].flipped
                v == dec_levels[t].changed_var
                old == dec_levels[t].assignment
                new == dec_levels'[t].assignment
            IN  /\ Len(dec_levels') = t
                /\ \A k \in 1..(t - 1) : dec_levels'[k] = dec_levels[k]
                /\ dec_levels'[t].flipped
                /\ dec_levels'[t].changed_var = v
                /\ dec_levels'[t].next_var_at_least = dec_levels[t].next_var_at_least
                /\ DOMAIN new = DOMAIN old
                /\ new[v] = ~old[v]
                /\ \A x \in (DOMAIN old) \ {v} : new[x] = old[x]
                /\ state' = "PropagateAssignment"
                /\ lit' = Some(<< v, ~old[v] >>)]_vars

\* C19 witness: ContinueWith was returned after levels were popped, with levels left
\* below the flipped one
C19_Witness ==
    /\ state = "PropagateAssignment"
    /\ pushed > Len(dec_levels)
    /\ Len(dec_levels) >= 2
    /\ dec_levels[Len(dec_levels)].flipped
    /\ ~dec_levels[1].flipped

\* C20: the contradictory-literal abort of add_positive / add_negative is never triggered
\* through the parser: for every text, parse_cnf_from_str returns a CNF or a rejection
\* without aborting.
C20_ParserNeverAborts == state # "Aborted"

\* the parser converts a part and adds it to the clause being built
PartAdded ==
    /\ state = "Parse"
    /\ clause # None
    /\ parts # << >>
    /\ ~is_zero(Head(parts))

\* C21: every variable of a CNF the parser produces is >= 1 and equals the absolute value
\* of its token: whenever the parser adds a part, the variable added is the magnitude of
\* the token (no high half is dropped by the conversion to u32), and a returned CNF holds
\* no variable below 1.
C21_VariableIsTokenMagnitude ==
    /\ [](state = "Parsed" =>
            \A i \in 1..Len(cnf) : \A l \in LitSet(cnf[i]) : l[1] >= 1)
    /\ [][PartAdded =>
            /\ Head(parts).hi = 0
            /\ last_add'[1][1] = Head(parts).lo
            /\ last_add'[1][1] >= 1]_vars

\* the literals of a clause that an assignment satisfies, falsifies and leaves unassigned
SatisfiedLits(cls, a) == {l \in LitSet(cls) : get_lit(a, l) = Some(TRUE)}
FalsifiedLits(cls, a) == {l \in LitSet(cls) : get_lit(a, l) = Some(FALSE)}
UnassignedLits(cls, a) == {l \in LitSet(cls) : get_lit(a, l) = None}

\* find_replacement_literal was called on clause[1], initial_assignment and lit[1]
FindCalled == found # None /\ clause # None /\ lit # None

\* C22: for every clause, every assignment and every literal `other` of the clause: if no
\* literal of the clause is satisfied and at least two literals are unassigned,
\* find_replacement_literal returns MultipleUnassigned(L') with L' an unassigned literal
\* of the clause that differs from `other`.
C22_MultipleUnassigned ==
    (/\ FindCalled
     /\ SatisfiedLits(clause[1], initial_assignment) = {}
     /\ Cardinality(UnassignedLits(clause[1], initial_assignment)) >= 2)
        => /\ found[1].kind = "MultipleUnassigned"
           /\ found[1].lit # None
           /\ found[1].lit[1] \in UnassignedLits(clause[1], initial_assignment)
           /\ found[1].lit[1] # lit[1]

\* the position of the first satisfied literal in the stored order of the clause
FirstSatisfied(cls, a) ==
    CHOOSE i \in 1..Len(literals(cls)) :
        /\ get_lit(a, literals(cls)[i]) = Some(TRUE)
        /\ \A j \in 1..(i - 1) : get_lit(a, literals(cls)[j]) # Some(TRUE)

\* the number of unassigned literals stored before the first satisfied literal
UnassignedBeforeFirstSatisfied(cls, a) ==
    Cardinality({j \in 1..(FirstSatisfied(cls, a) - 1) : get_lit(a, literals(cls)[j]) = None})

\* find_replacement_literal returned GivenLiteralSatisfying exactly when `other` is satisfied
GivenExactlyWhenSatisfied ==
    found[1].kind = "GivenLiteralSatisfying" <=> get_lit(initial_assignment, lit[1]) = Some(TRUE)

\* find_replacement_literal returned OtherLiteralSatisfying of the first satisfied literal
ReturnedFirstSatisfied ==
    /\ found[1].kind = "OtherLiteralSatisfying"
    /\ found[1].lit = Some(literals(clause[1])[FirstSatisfied(clause[1], initial_assignment)])
    /\ found[1].lit[1] # lit[1]

\* C23 as stated: find_replacement_literal returns GivenSatisfying exactly when `other` is
\* satisfied, and whenever `other` is not satisfied but some literal of the clause is, it
\* returns OtherSatisfying(L') with L' the first satisfied literal in stored order.
C23_FirstSatisfiedAlways ==
    FindCalled =>
        /\ GivenExactlyWhenSatisfied
        /\ (/\ get_lit(initial_assignment, lit[1]) # Some(TRUE)
            /\ SatisfiedLits(clause[1], initial_assignment) # {})
                => ReturnedFirstSatisfied

\* C23: find_replacement_literal returns GivenSatisfying exactly when `other` is satisfied,
\* and whenever `other` is not satisfied, some literal of the clause is satisfied and at
\* most one unassigned literal is stored before the first satisfied literal, it returns
\* OtherSatisfying(L') with L' the first satisfied literal in stored order, L' # other.
C23_FirstSatisfied ==
    FindCalled =>
        /\ GivenExactlyWhenSatisfied
        /\ (/\ get_lit(initial_assignment, lit[1]) # Some(TRUE)
            /\ SatisfiedLits(clause[1], initial_assignment) # {}
            /\ UnassignedBeforeFirstSatisfied(clause[1], initial_assignment) <= 1)
                => ReturnedFirstSatisfied

\* `other` is false, an unassigned literal and a false literal come before the first
\* satisfied literal, and that literal was returned
C23_Witness ==
    /\ FindCalled
    /\ get_lit(initial_assignment, lit[1]) = Some(FALSE)
    /\ SatisfiedLits(clause[1], initial_assignment) # {}
    /\ FirstSatisfied(clause[1], initial_assignment) = 3
    /\ UnassignedBeforeFirstSatisfied(clause[1], initial_assignment) = 1
    /\ found[1].kind = "OtherLiteralSatisfying"

\* the clause is unit under a: no literal satisfied, exactly one unassigned
IsUnit(cls, a) == SatisfiedLits(cls, a) = {} /\ Cardinality(UnassignedLits(cls, a)) = 1

\* the unassigned literal of a unit clause
UnitLiteral(cls, a) == CHOOSE l \in UnassignedLits(cls, a) : TRUE

\* propagate_assignment is about to call update with the head of its queue
UpdateCalled == in_bcp /\ propagations # << >>

\* the watched literal that update takes as falsified by the literal l
Falsified(l) == << l[1], ~l[2] >>

\* the clauses update examines for the literal l, in the order it examines them
Examined(W, l) == AccessList(W, Falsified(l))

\* C24: for every clause that update examines (a clause listed under the falsified
\* literal), under the assignment passed in: check_clause_after_update pushes a propagation
\* exactly when the clause has no satisfied literal and exactly one unassigned literal U,
\* the pushed literal is U, and the watched pair is kept when U is the other watch and the
\* falsified watch is swapped to U otherwise; an update call that returns Satisfiable
\* returns exactly these literals, in the order of the clauses examined, and has changed
\* the watched pairs in this way.
C24_PropagatesExactlyUnits ==
    /\ [](UpdateCalled =>
            LET W == watchedliterals[1]
                a == current_assignment
                l == Head(propagations)
            IN  \A k \in 1..Len(Examined(W, l)) :
                    LET i == Examined(W, l)[k]
                        r == check_clause_after_update(W, i, cnf[i], a, l)
                        U == UnitLiteral(cnf[i], a)
                    IN  /\ r.props # << >> <=> IsUnit(cnf[i], a)
                        /\ IsUnit(cnf[i], a) =>
                            /\ r.props = << U >>
                            /\ IF U \in WatchedOf(W, i)
                               THEN r.kind = "KeepLiteral"
                               ELSE r.kind = "SwapTo" /\ r.lit = Some(U))
    /\ [][UpdateReturnsSatisfiable =>
            LET W == watchedliterals[1]
                a == current_assignment
                l == Head(propagations)
                unit(i) == IsUnit(cnf[i], a)
                units == SelectSeq(Examined(W, l), unit)
                emitted == SubSeq(propagations', Len(propagations), Len(propagations'))
            IN  /\ emitted = [k \in 1..Len(units) |-> UnitLiteral(cnf[units[k]], a)]
                /\ \A k \in 1..Len(units) :
                        LET i == units[k]
                            U == UnitLiteral(cnf[i], a)
                        IN  WatchedOf(watchedliterals'[1], i) =
                                IF U \in WatchedOf(W, i)
                                THEN WatchedOf(W, i)
                                ELSE (WatchedOf(W, i) \ {Falsified(l)}) \cup {U}]_vars

\* an update of this decision level returned a propagation, and a clause now watches a
\* literal BCP derived in this level that it did not watch when the index was built
C24_Witness ==
    /\ in_bcp
    /\ last_update = "Satisfiable"
    /\ dec_levels # << >>
    /\ \E i \in 1..Len(cnf) : \E U \in derived[Len(derived)] :
            /\ U \in WatchedOf(watchedliterals[1], i)
            /\ U \notin WatchedOf(WatchedLiterals_new(cnf), i)

\* every literal of the clause is assigned false under a
AllFalse(cls, a) == \A l \in LitSet(cls) : get_lit(a, l) = Some(FALSE)

\* the step is a call of update, made by BCP, that returns Unsatisfiable
UpdateReturnsUnsatisfiable == updates' = updates + 1 /\ last_update' = "Unsatisfiable"

\* C25: update (and hence BCP) reports a conflict only if some clause that watched the
\* falsified literal has every literal assigned false under the assignment passed in, and
\* find_replacement_literal returns UnsatisfiableClause exactly when all literals of the
\* clause are assigned false.
C25_ConflictOnlyWhenAllFalse ==
    /\ [](FindCalled =>
            (found[1].kind = "UnsatisfiableClause"
                <=> AllFalse(clause[1], initial_assignment)))
    /\ [][UpdateReturnsUnsatisfiable =>
            \E k \in 1..Len(Examined(watchedliterals[1], Head(propagations))) :
                AllFalse(cnf[Examined(watchedliterals[1], Head(propagations))[k]],
                         current_assignment)]_vars

\* BCP of a decision level ended with a conflict reported by update, on a clause of at
\* least two literals that are all false in the level's assignment
C25_Witness ==
    /\ state = "Backtrack"
    /\ last_update = "Unsatisfiable"
    /\ dec_levels # << >>
    /\ \E i \in 1..Len(cnf) :
            /\ Len(literals(cnf[i])) >= 2
            /\ AllFalse(cnf[i], current_assignment)

\* C26: whenever update is invoked during a solver run with literal L = (v, val), L is
\* satisfied under the assignment passed with it: v is assigned and its value is val, for
\* the seed and for every literal BCP takes from its queue.
C26_UpdatedLiteralIsSatisfied ==
    UpdateCalled => get_lit(current_assignment, Head(propagations)) = Some(TRUE)

\* the propagations the update call of this step returned, in the order BCP writes them
Emitted == SubSeq(propagations', Len(propagations), Len(propagations'))

\* C27: every propagation that BCP writes into the assignment targets a variable that was
\* unassigned immediately before that write: the variable is unassigned in the assignment
\* passed to update and is not the variable of a propagation written earlier in the same
\* step (so BCP never overwrites a value and never enqueues a variable twice).
C27_PropagationsTargetUnassigned ==
    [][UpdateReturnsSatisfiable =>
        \A k \in 1..Len(Emitted) :
            /\ Emitted[k][1] \notin DOMAIN current_assignment
            /\ \A j \in 1..(k - 1) : Emitted[j][1] # Emitted[k][1]]_vars

\* a is closed under unit propagation: no clause is all false and no clause is unit
Closed(clauses, a) ==
    \A i \in 1..Len(clauses) : ~AllFalse(clauses[i], a) /\ ~IsUnit(clauses[i], a)

\* the step is the return of AssignmentDone by propagate_assignment
BcpReturnsDone == in_bcp /\ propagations = << >> /\ ~in_bcp'

\* C28: whenever BCP returns Done during a solver run, the top assignment is closed under
\* unit propagation: no clause has all its literals assigned false, and no clause has
\* exactly one unassigned literal with all its other literals assigned false.
C28_ClosedWhenDone == [][BcpReturnsDone => Closed(cnf, current_assignment)]_vars

\* the step is the entry into propagate_assignment with its seed literal
BcpSeeded == ~in_bcp /\ in_bcp'

\* the value the propagations q give to variable v: that of the last of them that names v
LastWritten(q, v) ==
    q[CHOOSE k \in 1..Len(q) : q[k][1] = v /\ \A j \in (k + 1)..Len(q) : q[j][1] # v][2]

\* C29: BCP processes literals in first-in-first-out order of emission: its queue starts as
\* the seed alone; every update call is made for the head of the queue, and when it returns
\* Satisfiable the literals still queued keep their places and the propagations update
\* returned are appended behind them in the order update returned them; each of them is
\* written into the assignment in that same step, before the next literal is taken.
C29_FifoAndWrittenWhenEnqueued ==
    /\ [][BcpSeeded =>
            /\ Len(propagations') = 1
            /\ propagations'[1] \in (IF state = "Level0" THEN assignments_vec ELSE {lit[1]})]_vars
    /\ [][UpdateReturnsSatisfiable =>
            /\ Len(propagations') >= Len(propagations) - 1
            /\ SubSeq(propagations', 1, Len(propagations) - 1) = Tail(propagations)
            /\ Emitted =
                  update(watchedliterals[1], cnf, current_assignment, Head(propagations)).propagations
            /\ DOMAIN current_assignment' =
                  DOMAIN current_assignment \cup {Emitted[k][1] : k \in 1..Len(Emitted)}
            /\ \A v \in DOMAIN current_assignment' :
                  current_assignment'[v] =
                      IF \E k \in 1..Len(Emitted) : Emitted[k][1] = v
                      THEN LastWritten(Emitted, v)
                      ELSE current_assignment[v]]_vars

\* an update call for the head of a queue that held a second literal has returned a
\* propagation: the queue now holds the waiting literal and, behind it, the new one, and
\* both are satisfied in the assignment
C29_Witness ==
    /\ in_bcp
    /\ last_update = "Satisfiable"
    /\ updates >= 2
    /\ Len(propagations) >= 2
    /\ propagations[1][1] # propagations[2][1]
    /\ propagations[2] \in derived[Len(derived)]
    /\ \A k \in 1..2 : get_lit(current_assignment, propagations[k]) = Some(TRUE)

\* the value of the decided variable in the assignment of level k
DecidedValue(k) == get(dec_levels[k].assignment, dec_levels[k].changed_var)

\* C30: every decision level is pushed with its decided variable set to false and with
\* flipped = false, the value true is given to a decided variable only by a backtrack flip,
\* and so for every level on the stack at every point of the search the value of the
\* decided variable in that level's assignment equals that level's flipped flag.
C30_DecidedValueIsFlipped ==
    /\ [](\A k \in 1..Len(dec_levels) : DecidedValue(k) = Some(dec_levels[k].flipped))
    /\ [][Len(dec_levels') = Len(dec_levels) + 1 =>
            /\ ~dec_levels'[Len(dec_levels')].flipped
            /\ get(dec_levels'[Len(dec_levels')].assignment,
                   dec_levels'[Len(dec_levels')].changed_var) = Some(FALSE)]_vars
    /\ [][\A k \in 1..Len(dec_levels') :
            (/\ k <= Len(dec_levels)
             /\ DecidedValue(k) = Some(FALSE)
             /\ get(dec_levels'[k].assignment, dec_levels'[k].changed_var) = Some(TRUE))
                => (state = "Backtrack" /\ k = Len(dec_levels') /\ dec_levels'[k].flipped)]_vars

\* a stack of a flipped level, whose decided variable is true, under an unflipped level,
\* whose decided variable is false
C30_Witness ==
    /\ Len(dec_levels) >= 2
    /\ dec_levels[1].flipped
    /\ DecidedValue(1) = Some(TRUE)
    /\ ~dec_levels[2].flipped
    /\ DecidedValue(2) = Some(FALSE)

\* C31: at every point of the search the decided variables of the decision stack are
\* strictly increasing from bottom to top, so no variable is decided by two levels at once.
C31_DecidedVarsAscend ==
    \A k \in 1..(Len(dec_levels) - 1) :
        dec_levels[k].changed_var < dec_levels[k + 1].changed_var

\* a stack of two levels whose decided variables are not consecutive: the variable between
\* them was assigned by BCP
C31_Witness ==
    /\ Len(dec_levels) >= 2
    /\ dec_levels[2].changed_var > dec_levels[1].changed_var + 1

\* the smallest variable greater than n that is unassigned in a
SmallestUnassignedAbove(a, n) ==
    CHOOSE v \in (n + 1)..(n + 1 + Cardinality(DOMAIN a)) :
        /\ v \notin DOMAIN a
        /\ \A y \in (n + 1)..(v - 1) : y \in DOMAIN a

\* C32: choose_next_var returns Some(v) exactly when v is the smallest variable greater
\* than the top level's next_var_at_least (0 for an empty stack) that is unassigned in the
\* top (or level-0) assignment and v < highest_var; it returns None when that variable is
\* >= highest_var, so the highest variable is never chosen as a decision variable.
C32_ChoosesSmallestUnassignedBelowMax ==
    /\ [][state = "AssignNewVar" =>
            LET v == SmallestUnassignedAbove(current_assignment,
                                            last_or(dec_levels, "next_var_at_least", 0))
            IN  IF v < highest_var(cnf)
                THEN state' = "NewDecLevelWithAssignment" /\ lit' = Some(<< v, FALSE >>)
                ELSE state' = "Backtrack" /\ lit' = lit]_vars
    /\ [](state = "NewDecLevelWithAssignment" => lit[1][1] # highest_var(cnf))

\* the highest variable of the formula is the smallest unassigned one, and choose_next_var
\* has returned None
C32_Witness ==
    /\ state = "Backtrack"
    /\ dec_levels # << >>
    /\ highest_var(cnf) >= 2
    /\ highest_var(cnf) =
          SmallestUnassignedAbove(current_assignment, dec_levels[1].next_var_at_least)

\* C33: for every decision level on the stack, every variable from 1 to the level's
\* next_var_at_least is assigned in the level's assignment, and next_var_at_least never
\* decreases from a level to the level above it: a new level takes the decided variable v
\* when v = parent.next_var_at_least + 1 (parent value 0 for an empty stack) and the
\* parent's value otherwise.
C33_NextVarAtLeast ==
    /\ [](\A k \in 1..Len(dec_levels) :
            /\ \A x \in 1..dec_levels[k].next_var_at_least :
                    x \in DOMAIN dec_levels[k].assignment
            /\ k > 1 => dec_levels[k - 1].next_var_at_least <= dec_levels[k].next_var_at_least)
    /\ [][Len(dec_levels') = Len(dec_levels) + 1 =>
            LET parent == last_or(dec_levels, "next_var_at_least", 0)
                new == dec_levels'[Len(dec_levels')]
            IN  new.next_var_at_least =
                    IF new.changed_var = parent + 1 THEN new.changed_var ELSE parent]_vars

\* a level that took its decided variable under a level that carried its parent's value
C33_Witness ==
    /\ Len(dec_levels) >= 2
    /\ dec_levels[1].next_var_at_least = dec_levels[1].changed_var
    /\ dec_levels[2].next_var_at_least = dec_levels[1].next_var_at_least
    /\ dec_levels[2].changed_var > dec_levels[2].next_var_at_least + 1

\* C34: whenever the driver enters the Propagate state with literal l, the decision stack
\* is non-empty and l is satisfied in the top level's assignment, both when it comes from
\* NewDecLevel and when it comes from a backtrack that returned ContinueWith(l).
C34_PropagateEntered ==
    (state = "PropagateAssignment" /\ ~in_bcp) =>
        /\ dec_levels # << >>
        /\ lit # None
        /\ get_lit(dec_levels[Len(dec_levels)].assignment, lit[1]) = Some(TRUE)

\* the Propagate state is entered from a backtrack that flipped the level now on top
C34_Witness ==
    /\ state = "PropagateAssignment"
    /\ ~in_bcp
    /\ dec_levels # << >>
    /\ dec_levels[Len(dec_levels)].flipped
    /\ lit = Some(<< dec_levels[Len(dec_levels)].changed_var, TRUE >>)

\* the literals that are the only literal of some clause
SingletonLits(clauses) ==
    UNION {LitSet(clauses[i]) : i \in {j \in 1..Len(clauses) : Len(literals(clauses[j])) = 1}}

\* the assignment of exactly the variables of the single-literal clauses, each mapped to
\* the polarity of its literal
SinglesAssignment(clauses) ==
    [v \in {l[1] : l \in SingletonLits(clauses)} |-> << v, TRUE >> \in SingletonLits(clauses)]

\* the step calls get_assignment_from_single_clauses (right after WatchedLiterals::new)
SinglesCollected == state = "Start" /\ watchedliterals = None /\ watchedliterals' # None

\* C35: get_assignment_from_single_clauses returns None exactly when two clauses of length
\* one hold opposite literals of the same variable (the call then returns UNSAT at once);
\* otherwise it returns the assignment whose domain is exactly the variables of the
\* length-one clauses, each mapped to the polarity of its literal, ignoring all longer
\* clauses and repeated singletons.
C35_SinglesAssignment ==
    [][SinglesCollected =>
        IF ConflictingSingletons(cnf)
        THEN /\ state' = "Returned"
             /\ exit' = "conflicting_singles"
             /\ initial_assignment' = initial_assignment
        ELSE /\ state' = "Level0"
             /\ initial_assignment' = SinglesAssignment(cnf)
             /\ assignments_vec' = iter(SinglesAssignment(cnf))]_vars

\* the level-0 assignment was built from several single-literal clauses of a formula that
\* also has a longer clause, and none of its literals has been propagated yet
C35_Witness ==
    /\ state = "Level0"
    /\ ~in_bcp
    /\ updates = 0
    /\ assignments_vec = iter(initial_assignment)
    /\ Cardinality(DOMAIN initial_assignment) >= 2
    /\ \E i \in 1..Len(cnf) : Len(literals(cnf[i])) >= 2

\* the index is as WatchedLiterals::new built it: update has not been called on it
FreshIndex == state = "Index" /\ last_update = ""

\* the clauses of the formula whose first two literals include L
FirstTwoHold(clauses, L) ==
    {i \in 1..Len(clauses) :
        /\ Len(literals(clauses[i])) >= 2
        /\ L \in {literals(clauses[i])[1], literals(clauses[i])[2]}}

\* C36: for every CNF, WatchedLiterals::new gives each clause with fewer than two literals
\* no watched pair and each other clause the pair of its first two literals in stored
\* order (positive before negative), and the access map lists for each watched literal
\* exactly the indices of the clauses watching it, in ascending clause order, with no
\* entry for literals nobody watches.
C36_NewWatchesFirstTwo ==
    FreshIndex =>
        LET W == watchedliterals[1]
        IN  /\ Len(W.watched_literals) = Len(cnf)
            /\ \A i \in 1..Len(cnf) :
                    W.watched_literals[i] =
                        IF Len(literals(cnf[i])) < 2 THEN None
                        ELSE Some(<< literals(cnf[i])[1], literals(cnf[i])[2] >>)
            /\ DOMAIN W.access_map = {L \in UNION {LitSet(cnf[i]) : i \in 1..Len(cnf)} :
                                         FirstTwoHold(cnf, L) # {}}
            /\ \A L \in DOMAIN W.access_map :
                    /\ {W.access_map[L][p] : p \in 1..Len(W.access_map[L])} = FirstTwoHold(cnf, L)
                    /\ \A p \in 1..(Len(W.access_map[L]) - 1) :
                            W.access_map[L][p] < W.access_map[L][p + 1]

\* a freshly built index in which two clauses watch the same literal and a clause with a
\* positive and a negative literal watches the positive one first
C36_Witness ==
    /\ FreshIndex
    /\ \E L \in DOMAIN watchedliterals[1].access_map : Len(watchedliterals[1].access_map[L]) >= 2
    /\ \E i \in 1..Len(cnf) :
            /\ cnf[i].positive # << >>
            /\ cnf[i].negative # << >>
            /\ watchedliterals[1].watched_literals[i] =
                    Some(<< << cnf[i].positive[1], TRUE >>, << cnf[i].negative[1], FALSE >> >>)

\* the step is a call replace_watched_literal(i, old, new) for a clause i that watches old
ReplaceCalled ==
    /\ state = "Replace"
    /\ replaced' # None
    /\ replaced'[1][2] \in WatchedOf(watchedliterals[1], replaced'[1][1])

\* C37: replace_watched_literal(i, old, new), called when clause i watches old, removes
\* exactly one occurrence of i from the access list of old, appends i to the access list of
\* new, and rewrites the slot of clause i's pair that held old so that it holds new; the
\* other slot of that pair, the watched pairs of all other clauses and the access lists of
\* all other literals are unchanged.
C37_ReplaceFrame ==
    [][ReplaceCalled =>
        LET i   == replaced'[1][1]
            old == replaced'[1][2]
            new == replaced'[1][3]
            W   == watchedliterals[1]
            W2  == watchedliterals'[1]
            wls == W.watched_literals[i][1]
        IN  /\ state' = "Replace"
            /\ old \in DOMAIN W2.access_map
            /\ new \in DOMAIN W2.access_map
            /\ IF new # old
               THEN /\ Len(W2.access_map[old]) = Len(AccessList(W, old)) - 1
                    /\ \A j \in 1..Len(cnf) :
                            Occurrences(W2.access_map[old], j) =
                                Occurrences(AccessList(W, old), j) - (IF j = i THEN 1 ELSE 0)
                    /\ W2.access_map[new] = Append(AccessList(W, new), i)
               ELSE \* the occurrence removed from the list of old is appended to it again
                    /\ Len(W2.access_map[old]) = Len(AccessList(W, old))
                    /\ \A j \in 1..Len(cnf) :
                            Occurrences(W2.access_map[old], j) = Occurrences(AccessList(W, old), j)
                    /\ W2.access_map[old][Len(W2.access_map[old])] = i
            /\ W2.watched_literals[i] =
                    Some(IF wls[1] = old THEN << new, wls[2] >> ELSE << wls[1], new >>)
            /\ \A j \in 1..Len(cnf) : j # i => W2.watched_literals[j] = W.watched_literals[j]
            /\ DOMAIN W2.access_map = DOMAIN W.access_map \cup {new}
            /\ \A L \in DOMAIN W.access_map \ {old, new} : W2.access_map[L] = W.access_map[L]
    ]_vars

\* replace_watched_literal has rewritten the second slot of a clause whose old literal
\* another clause still watches, and the new literal had no entry before
C37_Witness ==
    /\ state = "Replace"
    /\ replaced # None
    /\ watchedliterals[1].watched_literals[replaced[1][1]][1][2] = replaced[1][3]
    /\ AccessList(watchedliterals[1], replaced[1][2]) # << >>
    /\ Len(AccessList(watchedliterals[1], replaced[1][3])) = 1

\* the step is the run of update(cnf, initial_assignment, lit) on the index
UpdateRuns == state = "Update" /\ lit # None /\ last_update = "" /\ last_update' # ""

\* C38: update((v, val)) examines each clause index that was in the access list of
\* (v, not val) at entry exactly once and in the order of that list, even though swaps
\* remove entries from the list while it runs: the clauses before the first clause found
\* all-false are each swapped or kept as check_clause_after_update decides, the clause found
\* all-false and the clauses after it are left as they were and a conflict is returned, and
\* without a conflict the propagations are returned in the order of the clauses examined.
C38_ExaminesSnapshotInOrder ==
    [][UpdateRuns =>
        LET W    == watchedliterals[1]
            W2   == watchedliterals'[1]
            a    == initial_assignment
            l    == lit[1]
            S    == Examined(W, l)
            out(p) == check_clause_after_update(W, S[p], cnf[S[p]], a, l)
            stops == {p \in 1..Len(S) : out(p).kind \notin {"KeepLiteral", "SwapTo"}}
            K    == IF stops = {} THEN Len(S) + 1
                    ELSE CHOOSE p \in stops : \A q \in stops : p <= q
            swapped(p) == p < K /\ out(p).kind = "SwapTo"
            emits(p) == out(p).props # << >>
            emitting == SelectSeq([p \in 1..Len(S) |-> p], emits)
        IN  /\ \A p \in 1..Len(S) :
                    LET wls == W.watched_literals[S[p]][1]
                    IN  W2.watched_literals[S[p]] =
                            IF swapped(p)
                            THEN Some(IF wls[1] = Falsified(l)
                                      THEN << out(p).lit[1], wls[2] >>
                                      ELSE << wls[1], out(p).lit[1] >>)
                            ELSE W.watched_literals[S[p]]
            /\ \A p \in 1..Len(S) :
                    /\ Occurrences(AccessList(W2, Falsified(l)), S[p]) =
                            (IF swapped(p) /\ out(p).lit[1] # Falsified(l) THEN 0 ELSE 1)
                    /\ swapped(p) => Occurrences(AccessList(W2, out(p).lit[1]), S[p]) = 1
            /\ last_update' = "Unsatisfiable"
                    <=> (K <= Len(S) /\ out(K).kind = "UnsatisfiableClause")
            /\ last_update' = "Satisfiable" <=> K > Len(S)
            /\ K > Len(S) =>
                    propagations' = [k \in 1..Len(emitting) |-> out(emitting[k]).props[1]]
    ]_vars

\* update returned a conflict and left unexamined a clause that watches the falsified
\* literal, whose other watched literal is false and which has a literal that is not false
C38_Witness ==
    /\ state = "Update"
    /\ lit # None
    /\ last_update = "Unsatisfiable"
    /\ \E j \in 1..Len(cnf) :
            /\ Falsified(lit[1]) \in WatchedOf(watchedliterals[1], j)
            /\ \A w \in WatchedOf(watchedliterals[1], j) : get_lit(initial_assignment, w) = Some(FALSE)
            /\ ~AllFalse(cnf[j], initial_assignment)

\* no clause of the index W watches the literal that l falsifies
NoWatcher(W, l) == \A i \in 1..Len(W.watched_literals) : Falsified(l) \notin WatchedOf(W, i)

\* C39: update((v, val)) never changes the assignment and never changes the watched pair
\* of a clause that was not watching (v, not val) at entry; when no clause watches
\* (v, not val) it returns Satisfiable with no propagations and leaves the whole index
\* unchanged.
C39_UpdateFrame ==
    [][UpdateRuns =>
        LET W  == watchedliterals[1]
            W2 == watchedliterals'[1]
            l  == lit[1]
        IN  /\ initial_assignment' = initial_assignment
            /\ \A i \in 1..Len(cnf) :
                    Falsified(l) \notin WatchedOf(W, i) =>
                        W2.watched_literals[i] = W.watched_literals[i]
            /\ NoWatcher(W, l) =>
                    /\ last_update' = "Satisfiable"
                    /\ propagations' = << >>
                    /\ W2 = W
    ]_vars

\* update returned for a literal whose negation has an access list that earlier swaps
\* emptied, while another clause of the formula watches other literals
C39_Witness ==
    /\ state = "Update"
    /\ lit # None
    /\ last_update = "Satisfiable"
    /\ propagations = << >>
    /\ Falsified(lit[1]) \in DOMAIN watchedliterals[1].access_map
    /\ watchedliterals[1].access_map[Falsified(lit[1])] = << >>
    /\ NoWatcher(watchedliterals[1], lit[1])
    /\ \E i \in 1..Len(cnf) : watchedliterals[1].watched_literals[i] # None

====
